---- MODULE Spec2Model ----
(***************************************************************************)
(* 3D-Room-Planner: the room builder (three/objects/Room.js), the pointer  *)
(* state machine (three/InteractionManager.js) and the undo/redo stack of  *)
(* three/SceneManager.js.                                                  *)
(*                                                                         *)
(* Floor coordinates of the room are integers in millimetres, so that the  *)
(* wall epsilon 0.001 (metres) is exactly one unit.  Lengths are kept as   *)
(* squared lengths; Math.sqrt is monotone, so every comparison the code    *)
(* makes on a length is made here on its square.                           *)
(***************************************************************************)
EXTENDS Integers, Sequences, FiniteSets, TLC

VARIABLES
    \* ---- Room (three/objects/Room.js) ----
    currentPoints,     \* Room._currentPoints
    floor,             \* the "RoomFloor" mesh in Room.group ("none" or its outline)
    wallSegments,      \* Room.wallSegments
    groupPosition,     \* Room.group.position as (numerator, n), see GroupPosition
    roomCall,          \* the last buildFromPolygon call: its arguments and outcome
    wallVisible,       \* per wall of wallSegments: Mesh.visible
    matrixWorld,       \* the translation of Room.group.matrixWorld, as groupPosition
    children,          \* Room.group.children: the meshes of the room, in order
    watermark,         \* whether Room.watermark holds a mesh
    watermarkTexture,  \* whether Room.watermarkTexture holds a texture
    \* ---- FloorDimensionEditor (three/FloorDimensionEditor.js) ----
    editorPoints,      \* FloorDimensionEditor.points
    handles,           \* the x/z of each handle's position
    edgeLabels,        \* FloorDimensionEditor.edgeLabels: where each label is placed
    isActive,
    onPointsUpdated,   \* whether the commit callback is set
    dragged,           \* the handle DragControls is dragging (1-based; 0: none)
    enabled,           \* InteractionManager.enabled, a property only toggleFloorEditor writes
    \* ---- SceneManager ----
    created,           \* models the loader has delivered so far
    scene,             \* placed objects that are children of the THREE.Scene
    objects,           \* SceneManager.objects
    obj,               \* per object: position, rotation, scale, userData
    undoStack,         \* SceneManager.undoStack
    redoStack,         \* SceneManager.redoStack
    smSelectedObject,  \* SceneManager.selectedObject
    \* ---- InteractionManager ----
    selectedObject,    \* InteractionManager.selectedObject
    pinnedObjects,     \* InteractionManager.pinnedObjects (uuids)
    isDragging,
    isRotating,
    interactionMode,
    dragStartPosition, \* the hit point startDrag was called with
    objectStartPosition,
    objectStartRotation,
    dragOffset,
    startPointer,      \* InteractionManager.startPointer.x (pointer.x is rewritten by every
                       \* pointer handler before it is read, and is the handlers' px)
    orbitEnabled,      \* orbitControls.enabled
    events,            \* the selection notifications of the last handler that sent any
    \* ---- the handler that ran last ----
    lastOp

roomVars  == <<currentPoints, floor, wallSegments, groupPosition, roomCall, wallVisible,
               matrixWorld, children, watermark, watermarkTexture>>
editorVars == <<editorPoints, handles, edgeLabels, isActive, onPointsUpdated, dragged, enabled>>
sceneVars == <<created, scene, objects, obj, undoStack, redoStack, smSelectedObject>>
imVars    == <<selectedObject, pinnedObjects, isDragging, isRotating, interactionMode,
               dragStartPosition, objectStartPosition, objectStartRotation, dragOffset, startPointer, orbitEnabled,
               events>>
vars      == <<roomVars, editorVars, sceneVars, imVars, lastOp>>

(***************************************************************************)
(* Bounds                                                                  *)
(***************************************************************************)
MaxCoord  == 2     \* polygon inputs have coordinates 0..MaxCoord (mm)
MaxPoints == 4     \* polygon inputs have at most MaxPoints points
NumObjs   == 2     \* models the loader can deliver
MaxStack  == 2     \* actions recorded on the undo stack
MaxPos    == 1     \* floor points (k, k) for k in 0..MaxPos steps of 0.5 m
MaxPointer == 1    \* pointer.x ranges over 0..MaxPointer pointer units
MaxTurn   == 1     \* rotation.y ranges over 0..MaxTurn eighths of a turn
MaxDrag   == 1     \* handles stay within MaxDrag steps of a vertex of the first room
MaxHandle == 1     \* the handles that are dragged are the first MaxHandle ones

\* JavaScript's null and undefined.  Objects are numbered from 1, so the
\* null object reference is 0; a missing point or state is a record with
\* none of a point's or a state's fields.
Null      == 0
NullPoint == [type |-> "null"]
Undefined == [type |-> "undefined"]

(***************************************************************************)
(* Generic helpers                                                         *)
(***************************************************************************)
Reverse(s) == [i \in 1..Len(s) |-> s[Len(s) + 1 - i]]

RECURSIVE SumTo(_, _)
SumTo(f, n) == IF n = 0 THEN 0 ELSE f[n] + SumTo(f, n - 1)

\* Array.prototype.filter(x => x !== o)
RECURSIVE FilterOut(_, _)
FilterOut(s, o) ==
    IF s = <<>> THEN <<>>
    ELSE IF Head(s) = o THEN FilterOut(Tail(s), o)
         ELSE <<Head(s)>> \o FilterOut(Tail(s), o)

(***************************************************************************)
(* Room.js                                                                 *)
(***************************************************************************)
Epsilon == 1       \* 0.001 m, the tiny-wall cut-off of createWalls, in mm

\* points[(i + 1) % points.length], with 1-based i
NextIdx(i, n) == (i % n) + 1

\* the shoelace sum of isClockwise
ShoelaceSum(points) ==
    LET n == Len(points)
        term == [i \in 1..n |->
                   (points[NextIdx(i, n)].x - points[i].x)
                 * (points[NextIdx(i, n)].z + points[i].z)]
    IN SumTo(term, n)

isClockwiseNever(points) == FALSE

isClockwiseFlipped(points) ==
    IF Len(points) < 2 THEN FALSE ELSE ShoelaceSum(points) < 0

isClockwiseOrFlat(points) ==
    IF Len(points) < 2 THEN FALSE ELSE ShoelaceSum(points) >= 0

isClockwise(points) ==
    IF Len(points) < 2 THEN FALSE ELSE ShoelaceSum(points) > 0

WallOfOutward(points, i) ==
    LET n  == Len(points)
        a  == points[i]
        b  == points[(i % n) + 1]
        dx == b.x - a.x
        dz == b.z - a.z
    IN [wallIndex   |-> i - 1,
        a           |-> a,
        b           |-> b,
        lengthSq    |-> dx * dx + dz * dz,
        opacity     |-> 1,
        inwardNormalLocalXZ |-> [x |-> dz, z |-> -dx]]

\* one wall mesh of createWalls for the edge that starts at index i
WallOf(points, i) ==
    LET n  == Len(points)
        a  == points[i]
        b  == points[NextIdx(i, n)]
        dx == b.x - a.x
        dz == b.z - a.z
    IN [wallIndex   |-> i - 1,
        a           |-> a,
        b           |-> b,
        lengthSq    |-> dx * dx + dz * dz,
        \* material.clone(): a MeshStandardMaterial whose opacity is not set
        \* has opacity 1; nothing in Room writes it afterwards
        opacity     |-> 1,
        \* THREE.Vector3(-dz, 0, dx) before normalize(); normalize divides by
        \* the (positive) length and keeps the direction
        inwardNormalLocalXZ |-> [x |-> -dz, z |-> dx]]

RECURSIVE WallsFrom(_, _, _)
WallsFrom(points, i, last) ==
    IF i > last THEN <<>>
    ELSE LET w == WallOf(points, i)
         IN IF w.lengthSq < Epsilon * Epsilon
            THEN WallsFrom(points, i + 1, last)
            ELSE <<w>> \o WallsFrom(points, i + 1, last)

createWallsOpen(points) ==
    IF Len(points) < 3 THEN <<>> ELSE WallsFrom(points, 1, Len(points) - 1)

createWalls(points) ==
    IF Len(points) < 3 THEN <<>> ELSE WallsFrom(points, 1, Len(points))

createFloor(points) ==
    IF Len(points) < 3 THEN "none" ELSE points

\* Room.group.position is -(sum of the points)/n; kept as the pair
\* (numerator, n) so that no division is rounded
GroupPositionPlus(points) ==
    LET n  == Len(points)
        xs == [i \in 1..n |-> points[i].x]
        zs == [i \in 1..n |-> points[i].z]
    IN [x |-> SumTo(xs, n), z |-> SumTo(zs, n), n |-> n]

GroupPosition(points) ==
    LET n  == Len(points)
        xs == [i \in 1..n |-> points[i].x]
        zs == [i \in 1..n |-> points[i].z]
    IN [x |-> -SumTo(xs, n), z |-> -SumTo(zs, n), n |-> n]

\* the translation of a new Object3D's matrixWorld
Identity == [x |-> 0, z |-> 0, n |-> 1]

\* the meshes of Room.group, by name: the floor with its outline, a wall with
\* its index and its two ends, the watermark
FloorMesh(points) == [name |-> "RoomFloor", wallIndex |-> -1, points |-> points]
WallMesh(w)       == [name |-> "RoomWall", wallIndex |-> w.wallIndex, points |-> <<w.a, w.b>>]
WatermarkMesh     == [name |-> "RoomWatermark", wallIndex |-> -1, points |-> <<>>]

WallMeshes(ws) == [k \in 1..Len(ws) |-> WallMesh(ws[k])]

IsWallMesh(mesh)      == mesh.name = "RoomWall"
IsNotWatermark(mesh)  == mesh.name # "RoomWatermark"

\* a clearRoom that leaves the group's children where they are
clearRoomKeep(ch) == ch

\* clearRoom: removeWatermark, then every child is removed from the group
clearRoom(ch) == <<>>

\* removeWatermark: group.remove(this.watermark)
removeWatermark(ch) == SelectSeq(ch, IsNotWatermark)

\* updateWatermarkPosition(camera), for the walls' new visibility: with a
\* texture and a visible wall, createWatermark removes the watermark and adds
\* a new one to the group (or the watermark is already on the best wall and
\* stays, the last child as before)
updateWatermarkPosition(visible) ==
    IF watermarkTexture /\ \E k \in 1..Len(visible) : visible[k]
    THEN /\ watermark' = TRUE
         /\ children' = removeWatermark(children) \o <<WatermarkMesh>>
    ELSE UNCHANGED <<children, watermark>>

\* what a call leaves in the room: Room.buildFromPolygon(points, isEmpty),
\* points an array; prevGroupPosition is Room.group.position before the call
RoomAfterBuild(points, isEmpty, prevGroupPosition) ==
    IF Len(points) < 3
    THEN [currentPoints |-> <<>>,
          floor         |-> "none",           \* clearRoom
          wallSegments  |-> <<>>,
          groupPosition |-> prevGroupPosition,
          roomCall      |-> [op |-> "rejected", points |-> points, isEmpty |-> isEmpty]]
    ELSE LET processedPoints == IF isClockwise(points) THEN Reverse(points) ELSE points
         IN [currentPoints |-> processedPoints,
             floor         |-> createFloor(processedPoints),
             wallSegments  |-> IF isEmpty THEN <<>> ELSE createWalls(processedPoints),
             groupPosition |-> GroupPosition(processedPoints),
             roomCall      |-> [op |-> "built", points |-> points, isEmpty |-> isEmpty]]

buildFromPolygon(points, isEmpty) ==
    LET r == RoomAfterBuild(points, isEmpty, groupPosition)
    IN /\ currentPoints' = r.currentPoints
       /\ floor' = r.floor
       /\ wallSegments' = r.wallSegments
       /\ groupPosition' = r.groupPosition
       /\ roomCall' = r.roomCall
       \* a new THREE.Mesh is visible
       /\ wallVisible' = [k \in 1..Len(r.wallSegments) |-> TRUE]
       \* clearRoom, createFloor, createWalls
       /\ children' = IF r.roomCall.op = "rejected" THEN clearRoom(children)
                      ELSE clearRoom(children) \o <<FloorMesh(r.currentPoints)>>
                                               \o WallMeshes(r.wallSegments)
       /\ watermark' = FALSE
       \* loadWatermarkTexture: watermarkConfig.enabled is true
       /\ watermarkTexture' = (watermarkTexture \/ (r.roomCall.op = "built" /\ ~isEmpty))
       \* group.position.set leaves group.matrixWorld as it is
       /\ UNCHANGED matrixWorld

\* the state after `new Room(height)`
RoomConstructed ==
    /\ currentPoints = <<>>
    /\ floor = "none"
    /\ wallSegments = <<>>
    /\ groupPosition = [x |-> 0, z |-> 0, n |-> 1]
    /\ roomCall = [op |-> "constructor", points |-> <<>>, isEmpty |-> FALSE]
    /\ wallVisible = <<>>
    /\ matrixWorld = Identity
    /\ children = <<>>
    /\ watermark = FALSE
    /\ watermarkTexture = FALSE

\* SceneManager.initRoom: the default 10 m x 6 m room, in mm
defaultRoomPoints ==
    << [x |-> -5000, z |-> -3000], [x |-> 5000, z |-> -3000],
       [x |-> 5000, z |-> 3000],   [x |-> -5000, z |-> 3000] >>

initRoom ==
    LET r == RoomAfterBuild(defaultRoomPoints, FALSE, [x |-> 0, z |-> 0, n |-> 1])
    IN /\ currentPoints = r.currentPoints
       /\ floor = r.floor
       /\ wallSegments = r.wallSegments
       /\ groupPosition = r.groupPosition
       /\ roomCall = r.roomCall
       /\ wallVisible = [k \in 1..Len(r.wallSegments) |-> TRUE]
       /\ matrixWorld = Identity
       /\ children = <<FloorMesh(r.currentPoints)>> \o WallMeshes(r.wallSegments)
       /\ watermark = FALSE
       /\ watermarkTexture = TRUE

Point2D == [x : 0..MaxCoord, z : 0..MaxCoord]

PolygonInputs == UNION {[1..n -> Point2D] : n \in 0..MaxPoints}

\* Room.getCurrentPoints: a copy of the stored points
getCurrentPoints == [i \in 1..Len(currentPoints) |-> currentPoints[i]]

\* the first build of a fresh room, from any polygon of the input set
BuildRoom ==
    /\ roomCall.op = "constructor"
    /\ \E points \in PolygonInputs, isEmpty \in BOOLEAN :
          buildFromPolygon(points, isEmpty)
    /\ lastOp' = [op |-> "buildFromPolygon", threw |-> FALSE]
    /\ UNCHANGED <<editorVars, sceneVars, imVars>>

\* the first build of a fresh room from a polygon of at most MinPoints points:
\* the polygons that are rejected, and the triangles
MinPoints == 3     \* points.length < 3 is rejected

SmallPolygonInputs == UNION {[1..n -> Point2D] : n \in 0..MinPoints}

BuildSmallRoom ==
    /\ roomCall.op = "constructor"
    /\ \E points \in SmallPolygonInputs, isEmpty \in BOOLEAN :
          buildFromPolygon(points, isEmpty)
    /\ lastOp' = [op |-> "buildFromPolygon", threw |-> FALSE]
    /\ UNCHANGED <<editorVars, sceneVars, imVars>>

\* a later build: from the room's own points, in either order, from the
\* default room, or from no points
RebuildInputs ==
    {getCurrentPoints, Reverse(getCurrentPoints), defaultRoomPoints, <<>>}

RebuildRoom ==
    /\ roomCall.op # "constructor"
    /\ \E points \in RebuildInputs, isEmpty \in BOOLEAN :
          buildFromPolygon(points, isEmpty)
    /\ lastOp' = [op |-> "buildFromPolygon", threw |-> FALSE]
    /\ UNCHANGED <<editorVars, sceneVars, imVars>>

\* buildFromPolygon called without an array.  The first statement evaluates
\* JSON.parse(JSON.stringify(points)): for undefined, JSON.stringify gives
\* undefined and JSON.parse(undefined) raises a SyntaxError before the
\* `!points` test is reached; for null it gives null, and the call is
\* rejected like a short polygon.
MissingPolygons == {"undefined", "null"}

buildFromPolygonMissing ==
    /\ \E arg \in MissingPolygons, isEmpty \in BOOLEAN :
          IF arg = "undefined"
          THEN /\ UNCHANGED roomVars
               /\ lastOp' = [op |-> "buildFromPolygon", threw |-> TRUE, arg |-> arg]
          ELSE /\ buildFromPolygon(<<>>, isEmpty)
               /\ lastOp' = [op |-> "buildFromPolygon", threw |-> FALSE, arg |-> arg]
    /\ UNCHANGED <<editorVars, sceneVars, imVars>>

(***************************************************************************)
(* Room.updateWallVisibility(camera).  The camera's view direction is a    *)
(* unit vector; the walls' normals have y = 0, so only its x and z enter   *)
(* the dot product.  They are kept in fifths, so that the threshold 0.4 is *)
(* two units.  The group is never rotated: its world quaternion is the     *)
(* identity and the world-space normal is the local one.                   *)
(***************************************************************************)
threshold == 2     \* 0.4, in fifths

CameraDirections ==
    { [x |-> 0, z |-> 2], [x |-> 0, z |-> 1], [x |-> 3, z |-> -4],
      [x |-> -4, z |-> 0], [x |-> 2, z |-> 2] }

\* lastOp of a frame: the camera it ran with, and whether the frame before
\* it ran with the same camera and nothing happened in between
Frame(cameraWorldDirection) ==
    [op |-> "updateWallVisibility", threw |-> FALSE, camera |-> cameraWorldDirection,
     repeated |-> IF lastOp.op = "updateWallVisibility"
                  THEN lastOp.camera = cameraWorldDirection ELSE FALSE]

DotAtMostThreshold(w, cameraWorldDirection) ==
    LET n == w.inwardNormalLocalXZ
        s == cameraWorldDirection.x * n.x + cameraWorldDirection.z * n.z
    IN s < 0 \/ s * s <= threshold * threshold * (n.x * n.x + n.z * n.z)

\* dotProduct < threshold for the wall w: with s the dot product of the view
\* direction (in fifths) and the unnormalized normal n, dotProduct is
\* s / (5 |n|), and s / |n| < threshold exactly when s < 0 or
\* s * s < threshold^2 * |n|^2
DotBelowThreshold(w, cameraWorldDirection) ==
    LET n == w.inwardNormalLocalXZ
        s == cameraWorldDirection.x * n.x + cameraWorldDirection.z * n.z
    IN s < 0 \/ s * s < threshold * threshold * (n.x * n.x + n.z * n.z)

updateWallVisibilitySticky(cameraWorldDirection) ==
    /\ IF Len(wallSegments) = 0
       THEN UNCHANGED <<wallVisible, matrixWorld, children, watermark>>
       ELSE /\ matrixWorld' = groupPosition
            /\ wallVisible' = [k \in 1..Len(wallSegments) |->
                wallVisible[k] /\ DotBelowThreshold(wallSegments[k], cameraWorldDirection)]
            /\ updateWatermarkPosition(wallVisible')
    /\ lastOp' = Frame(cameraWorldDirection)
    /\ UNCHANGED <<currentPoints, floor, wallSegments, groupPosition, roomCall,
                   watermarkTexture, editorVars, sceneVars, imVars>>

updateWallVisibility(cameraWorldDirection) ==
    /\ IF Len(wallSegments) = 0
       THEN UNCHANGED <<wallVisible, matrixWorld, children, watermark>>
       \* group.getWorldQuaternion brings group.matrixWorld up to date
       ELSE /\ matrixWorld' = groupPosition
            /\ wallVisible' = [k \in 1..Len(wallSegments) |->
                DotBelowThreshold(wallSegments[k], cameraWorldDirection)]
            /\ updateWatermarkPosition(wallVisible')
    /\ lastOp' = Frame(cameraWorldDirection)
    /\ UNCHANGED <<currentPoints, floor, wallSegments, groupPosition, roomCall,
                   watermarkTexture, editorVars, sceneVars, imVars>>


(***************************************************************************)
(* Placed objects.  Positions are in mm on a grid of 0.5 m steps (the      *)
(* offset duplicateObject adds).  Angles are in units of 9 degrees         *)
(* (pi/20 rad) and the pointer's normalized x is in units of pi/20, so     *)
(* that handleRotation's 5.0 * deltaX and rotateObject's degToRad(45) are  *)
(* both whole numbers of angle units.                                      *)
(***************************************************************************)
Objs == 1..NumObjs

DuplicateOffset     == 500   \* clone.position.x += 0.5, in mm
rotationSensitivity == 5
DegreesPerUnit      == 9

PosCoords == {k * DuplicateOffset : k \in 0..MaxPos}
\* the floor points objects, hit points and ray intersections are drawn
\* from: a diagonal of the grid, which duplicateObject's offset stays on
PosXZ     == {[x |-> c, z |-> c] : c \in PosCoords}
MaxYaw    == MaxTurn * (45 \div DegreesPerUnit)
YawOK(y)  == 0 <= y /\ y <= MaxYaw
PosOK(p)  == [x |-> p.x, z |-> p.z] \in PosXZ

Vec3(x, y, z) == [x |-> x, y |-> y, z |-> z]

\* JSON.parse(JSON.stringify(userData)): a fresh object with the same keys;
\* every value kept here is a boolean, which JSON reads back unchanged
JsonCopy(userData) == [k \in DOMAIN userData |-> userData[k]]

\* userData[key] = value, adding the key when it is absent
SetKey(userData, key, value) ==
    [k \in DOMAIN userData \cup {key} |-> IF k = key THEN value ELSE userData[k]]

\* a model as the loader delivers it, before addModel places it
LoadedModel ==
    [position |-> Vec3(0, 0, 0), rotation |-> Vec3(0, 0, 0), scale |-> Vec3(1, 1, 1),
     userData |-> [isModelRoot |-> TRUE, selectable |-> TRUE]]

getObjectState(o) ==
    [position |-> obj[o].position, rotation |-> obj[o].rotation,
     scale |-> obj[o].scale, userData |-> JsonCopy(obj[o].userData)]

\* applyObjectState(object, state) for a state that is an object
applyObjectStateKeep(ob, o, state) == ob

applyObjectState(ob, o, state) ==
    [ob EXCEPT ![o] = [position |-> state.position, rotation |-> state.rotation,
                       scale |-> state.scale, userData |-> JsonCopy(state.userData)]]

Action(type, o, properties, previousProperties, newProperties) ==
    [type |-> type, object |-> o, properties |-> properties,
     previousProperties |-> previousProperties, newProperties |-> newProperties]

\* the undo stack after addToUndoStack(action); the redo stack becomes []
addToUndoStackKeepRedo(action) ==
    /\ undoStack' = Append(undoStack, action)
    /\ UNCHANGED redoStack

addToUndoStack(action) ==
    /\ undoStack' = Append(undoStack, action)
    /\ redoStack' = <<>>

Top(s)  == s[Len(s)]
Pop(s)  == SubSeq(s, 1, Len(s) - 1)

(***************************************************************************)
(* InteractionManager.select / deselect, on the three fields they and      *)
(* their callbacks (onObjectSelected, onObjectDeselected) write, and the   *)
(* notifications the callbacks send, in the order they are sent            *)
(***************************************************************************)
Sel == [selectedObject |-> selectedObject, isDragging |-> isDragging,
        smSelectedObject |-> smSelectedObject, events |-> <<>>]

Notification(type, o) == [type |-> type, object |-> o]

\* a deselect that does not call onObjectDeselected
deselectNoCallback(s) ==
    IF s.selectedObject = Null THEN s
    ELSE [selectedObject |-> Null, isDragging |-> FALSE,
          smSelectedObject |-> s.smSelectedObject, events |-> s.events]

deselect(s) ==
    IF s.selectedObject = Null THEN s
    ELSE [selectedObject |-> Null, isDragging |-> FALSE, smSelectedObject |-> Null,
          events |-> Append(s.events, Notification("object-deselected", s.selectedObject))]

selectNoDeselect(s, o) ==
    IF s.selectedObject = o THEN s
    ELSE [s EXCEPT !.selectedObject = o, !.smSelectedObject = o,
                   !.events = Append(@, Notification("object-selected", o))]

select(s, o) ==
    IF s.selectedObject = o THEN s
    ELSE [deselect(s) EXCEPT !.selectedObject = o, !.smSelectedObject = o,
                             !.events = Append(@, Notification("object-selected", o))]

SetSel(s) ==
    /\ selectedObject' = s.selectedObject
    /\ isDragging' = s.isDragging
    /\ smSelectedObject' = s.smSelectedObject
    /\ events' = IF s.events = <<>> THEN events ELSE s.events

isPinned(o) == o \in pinnedObjects

\* lastOp: the handler that ran last and whether it ended in a TypeError;
\* for undo, also the state it started from
Op(name) == [op |-> name, threw |-> FALSE]

UndoOp(threw) ==
    [op |-> "undo", threw |-> threw,
     before |-> [scene |-> scene, obj |-> obj,
                 undoStack |-> undoStack, redoStack |-> redoStack]]

RedoOp(threw) == [op |-> "redo", threw |-> threw]

\* the height addModel gives a model so that the bottom of its bounding box
\* is on the floor: -tempBox.min.y, which depends on the model (mm)
floorLevel == 0
yOffsetToPlaceBottomAtZero(model) == 100 * model

\* Room.group.getWorldPosition: the group is a direct child of the scene
RoomGroupWorld ==
    [x |-> groupPosition.x \div groupPosition.n,
     z |-> groupPosition.z \div groupPosition.n]

(***************************************************************************)
(* SceneManager: adding, duplicating, removing                             *)
(***************************************************************************)
\* the onLoad callback of addModel(modelType, initialPosition)
addModel(initialPosition) ==
    /\ Len(undoStack) < MaxStack
    /\ created # Objs
    /\ LET model == CHOOSE o \in Objs \ created : \A p \in Objs \ created : o <= p
           target == IF initialPosition = NullPoint THEN RoomGroupWorld ELSE initialPosition
           placed == [LoadedModel EXCEPT !.position =
                         Vec3(target.x, floorLevel + yOffsetToPlaceBottomAtZero(model),
                              target.z)]
       IN /\ initialPosition # NullPoint => target \in PosXZ
          /\ created' = created \cup {model}
          /\ obj' = [obj EXCEPT ![model] = placed]
          /\ scene' = scene \cup {model}
          /\ objects' = Append(objects, model)
          /\ addToUndoStack(Action("add", model, placed, Undefined, Undefined))
          /\ SetSel(select(Sel, model))
    /\ lastOp' = Op("addModel")
    \* group.getWorldPosition brings group.matrixWorld up to date
    /\ matrixWorld' = IF initialPosition = NullPoint THEN groupPosition ELSE matrixWorld
    /\ UNCHANGED <<currentPoints, floor, wallSegments, groupPosition, roomCall, wallVisible,
                   children, watermark, watermarkTexture,
                   editorVars, pinnedObjects, isRotating, interactionMode,
                   dragStartPosition, objectStartPosition, objectStartRotation, dragOffset,
                   startPointer, orbitEnabled>>

\* duplicateObject(currentSelected), the UI's 'duplicate'
duplicateObject ==
    /\ Len(undoStack) < MaxStack
    /\ created # Objs
    /\ smSelectedObject # Null
    /\ LET src   == smSelectedObject
           clone == CHOOSE o \in Objs \ created : \A p \in Objs \ created : o <= p
           made  == [position |-> Vec3(obj[src].position.x + DuplicateOffset,
                                       obj[src].position.y,
                                       obj[src].position.z + DuplicateOffset),
                     rotation |-> obj[src].rotation,
                     scale    |-> obj[src].scale,
                     userData |-> JsonCopy(obj[src].userData)]
       IN /\ PosOK(made.position)
          /\ created' = created \cup {clone}
          /\ obj' = [obj EXCEPT ![clone] = made]
          /\ objects' = Append(objects, clone)
          /\ scene' = scene \cup {clone}
          /\ addToUndoStack(Action("add", clone, made, Undefined, Undefined))
          /\ SetSel(select(Sel, clone))
    /\ lastOp' = Op("duplicateObject")
    /\ UNCHANGED <<roomVars, editorVars, pinnedObjects, isRotating, interactionMode,
                   dragStartPosition, objectStartPosition, objectStartRotation, dragOffset,
                   startPointer, orbitEnabled>>

removeObjectKeepSelected ==
    /\ Len(undoStack) < MaxStack
    /\ smSelectedObject # Null
    /\ LET o == smSelectedObject
       IN /\ addToUndoStack(Action("remove", o, getObjectState(o), Undefined, Undefined))
          /\ SetSel(Sel)
          /\ scene' = scene \ {o}
          /\ objects' = FilterOut(objects, o)
    /\ lastOp' = Op("removeObject")
    /\ UNCHANGED <<roomVars, editorVars, created, obj, pinnedObjects, isRotating, interactionMode,
                   dragStartPosition, objectStartPosition, objectStartRotation, dragOffset,
                   startPointer, orbitEnabled>>

\* removeObject(currentSelected), the UI's 'delete'
removeObject ==
    /\ Len(undoStack) < MaxStack
    /\ smSelectedObject # Null
    /\ LET o == smSelectedObject
       IN /\ addToUndoStack(Action("remove", o, getObjectState(o), Undefined, Undefined))
          /\ SetSel(deselect(Sel))
          /\ scene' = scene \ {o}
          /\ objects' = FilterOut(objects, o)
    /\ lastOp' = Op("removeObject")
    /\ UNCHANGED <<roomVars, editorVars, created, obj, pinnedObjects, isRotating, interactionMode,
                   dragStartPosition, objectStartPosition, objectStartRotation, dragOffset,
                   startPointer, orbitEnabled>>


(***************************************************************************)
(* InteractionManager: pointer and keyboard handlers                       *)
(***************************************************************************)
\* the callback onObjectChanged(object, previousState) of SceneManager; the
\* InteractionManager calls it with one argument, so previousState is
\* undefined
onObjectChanged(ob, o) ==
    addToUndoStack(Action("transform", o, Undefined, Undefined,
        [position |-> ob[o].position, rotation |-> ob[o].rotation,
         scale |-> ob[o].scale, userData |-> JsonCopy(ob[o].userData)]))

\* onPointerDown for a left click: px is the pointer's x, target the model
\* root the ray hits first (Null: nothing selectable is hit), hitPoint the
\* x/z of intersects[0].point
onPointerDown(px, target, hitPoint) ==
    /\ target \in scene \cup {Null}
    /\ startPointer' = px
    /\ IF target # Null
       THEN /\ IF selectedObject = target
               THEN IF ~isPinned(target)
                    THEN \* startDrag(selected, intersects[0].point)
                         /\ isDragging' = TRUE
                         /\ isRotating' = (interactionMode = "rotate")
                         /\ dragStartPosition' = hitPoint
                         /\ objectStartPosition' = obj[target].position
                         /\ objectStartRotation' = obj[target].rotation
                         /\ IF interactionMode # "rotate"
                            THEN dragOffset' = Vec3(hitPoint.x - obj[target].position.x, 0,
                                                    hitPoint.z - obj[target].position.z)
                            ELSE UNCHANGED dragOffset
                         /\ UNCHANGED <<selectedObject, smSelectedObject, events>>
                    ELSE UNCHANGED <<selectedObject, smSelectedObject, isDragging, isRotating,
                                     dragStartPosition, objectStartPosition, objectStartRotation, dragOffset,
                                     events>>
               ELSE /\ SetSel(select(Sel, target))
                    /\ UNCHANGED <<isRotating, dragStartPosition, objectStartPosition, objectStartRotation,
                                   dragOffset>>
            /\ orbitEnabled' = FALSE
       ELSE /\ SetSel(deselect(Sel))
            /\ orbitEnabled' = TRUE
            /\ UNCHANGED <<isRotating, dragStartPosition, objectStartPosition, objectStartRotation, dragOffset>>
    /\ lastOp' = Op("onPointerDown")
    /\ UNCHANGED <<roomVars, editorVars, created, scene, objects, obj, undoStack, redoStack,
                   pinnedObjects, interactionMode>>

handleTranslationToPlane(o, intersection) ==
    IF intersection = NullPoint THEN obj
    ELSE [obj EXCEPT ![o].position = Vec3(intersection.x - dragOffset.x,
                                          0,
                                          intersection.z - dragOffset.z)]

\* handleTranslation: intersection is the ray's hit on the drag plane
\* (NullPoint: the ray misses the plane)
handleTranslation(o, intersection) ==
    IF intersection = NullPoint THEN obj
    ELSE [obj EXCEPT ![o].position = Vec3(intersection.x - dragOffset.x,
                                          obj[o].position.y,
                                          intersection.z - dragOffset.z)]

\* a rotation that accumulates from the object's current yaw
handleRotationFromCurrent(o, px) ==
    [obj EXCEPT ![o].rotation.y =
        obj[o].rotation.y + (px - startPointer) * rotationSensitivity]

handleRotation(o, px) ==
    [obj EXCEPT ![o].rotation.y =
        objectStartRotation.y + (px - startPointer) * rotationSensitivity]

onPointerMoveIgnorePin(px, intersection) ==
    /\ IF isDragging /\ selectedObject # Null
       THEN LET o  == selectedObject
                ob == IF isRotating THEN handleRotation(o, px)
                      ELSE handleTranslation(o, intersection)
            IN /\ Len(undoStack) < MaxStack
               /\ PosOK(ob[o].position)
               /\ YawOK(ob[o].rotation.y)
               /\ obj' = ob
               /\ onObjectChanged(ob, o)
       ELSE UNCHANGED <<obj, undoStack, redoStack>>
    /\ lastOp' = Op("onPointerMove")
    /\ UNCHANGED <<roomVars, editorVars, created, scene, objects, smSelectedObject,
                   selectedObject, pinnedObjects, isDragging, isRotating, interactionMode,
                   dragStartPosition, objectStartPosition, objectStartRotation, dragOffset, startPointer,
                   orbitEnabled, events>>

onPointerMove(px, intersection) ==
    /\ IF isDragging /\ selectedObject # Null /\ ~isPinned(selectedObject)
       THEN LET o  == selectedObject
                ob == IF isRotating THEN handleRotation(o, px)
                      ELSE handleTranslation(o, intersection)
            IN /\ Len(undoStack) < MaxStack
               /\ PosOK(ob[o].position)
               /\ YawOK(ob[o].rotation.y)
               /\ obj' = ob
               /\ onObjectChanged(ob, o)
       ELSE UNCHANGED <<obj, undoStack, redoStack>>
    /\ lastOp' = Op("onPointerMove")
    /\ UNCHANGED <<roomVars, editorVars, created, scene, objects, smSelectedObject,
                   selectedObject, pinnedObjects, isDragging, isRotating, interactionMode,
                   dragStartPosition, objectStartPosition, objectStartRotation, dragOffset, startPointer,
                   orbitEnabled, events>>

onPointerUpKeepDragging ==
    /\ lastOp' = Op("onPointerUp")
    /\ UNCHANGED <<roomVars, editorVars, sceneVars, imVars>>

onPointerUp ==
    /\ IF isDragging /\ selectedObject # Null
       THEN /\ isDragging' = FALSE
            /\ isRotating' = FALSE
            /\ orbitEnabled' = TRUE
       ELSE UNCHANGED <<isDragging, isRotating, orbitEnabled>>
    /\ lastOp' = Op("onPointerUp")
    /\ UNCHANGED <<roomVars, editorVars, sceneVars, selectedObject, pinnedObjects, interactionMode,
                   dragStartPosition, objectStartPosition, objectStartRotation, dragOffset, startPointer,
                   events>>

\* the events that end a pointer's contact without a 'pointerup' on the
\* canvas: the button released outside the canvas, 'pointercancel',
\* 'pointerleave'.  addEventListeners registers no listener for them.
LostPointerEvents == {"pointerup-outside", "pointercancel", "pointerleave"}

pointerLost(type) ==
    /\ lastOp' = [op |-> "pointerLost", threw |-> FALSE, type |-> type]
    /\ UNCHANGED <<roomVars, editorVars, sceneVars, imVars>>

\* setInteractionMode(mode): keys T and R while an object is selected, and
\* the UI's 'translate' / 'rotate'
\* a mode change that also switches the drag in progress
setInteractionModeLive(mode) ==
    /\ selectedObject # Null \/ smSelectedObject # Null
    /\ interactionMode' = mode
    /\ isRotating' = (mode = "rotate")
    /\ lastOp' = Op("setInteractionMode")
    /\ UNCHANGED <<roomVars, editorVars, sceneVars, selectedObject, pinnedObjects, isDragging,
                   dragStartPosition, objectStartPosition, objectStartRotation, dragOffset,
                   startPointer, orbitEnabled, events>>

setInteractionMode(mode) ==
    /\ selectedObject # Null \/ smSelectedObject # Null
    /\ interactionMode' = mode
    /\ lastOp' = Op("setInteractionMode")
    /\ UNCHANGED <<roomVars, editorVars, sceneVars, selectedObject, pinnedObjects, isDragging,
                   isRotating, dragStartPosition, objectStartPosition, objectStartRotation, dragOffset,
                   startPointer, orbitEnabled, events>>

pinObject(o) ==
    /\ pinnedObjects' = pinnedObjects \cup {o}
    /\ obj' = [obj EXCEPT ![o].userData = SetKey(@, "isPinned", TRUE)]

unpinObject(o) ==
    /\ pinnedObjects' = pinnedObjects \ {o}
    /\ obj' = [obj EXCEPT ![o].userData = SetKey(@, "isPinned", FALSE)]

\* key P while an object is selected: togglePin(this.selectedObject)
togglePin ==
    /\ selectedObject # Null
    /\ IF isPinned(selectedObject) THEN unpinObject(selectedObject)
                                   ELSE pinObject(selectedObject)
    /\ lastOp' = Op("togglePin")
    /\ UNCHANGED <<roomVars, editorVars, created, scene, objects, undoStack, redoStack,
                   smSelectedObject, selectedObject, isDragging, isRotating,
                   interactionMode, dragStartPosition, objectStartPosition, objectStartRotation,
                   dragOffset, startPointer, orbitEnabled, events>>

\* the UI's 'pin' / 'unpin': pinObject(currentSelected), unpinObject(currentSelected)
uiPin(pin) ==
    /\ smSelectedObject # Null
    /\ IF pin THEN pinObject(smSelectedObject) ELSE unpinObject(smSelectedObject)
    /\ lastOp' = Op("uiPin")
    /\ UNCHANGED <<roomVars, editorVars, created, scene, objects, undoStack, redoStack,
                   smSelectedObject, selectedObject, isDragging, isRotating,
                   interactionMode, dragStartPosition, objectStartPosition, objectStartRotation,
                   dragOffset, startPointer, orbitEnabled, events>>

\* keys Delete and Backspace while an object is selected
deleteSelected ==
    /\ Len(undoStack) < MaxStack
    /\ selectedObject # Null
    /\ LET objectToDelete == selectedObject
       IN /\ SetSel(deselect(Sel))
          /\ pinnedObjects' = pinnedObjects \ {objectToDelete}
          /\ scene' = scene \ {objectToDelete}
          \* onObjectDeleted
          /\ objects' = FilterOut(objects, objectToDelete)
          /\ addToUndoStack(Action("remove", objectToDelete,
                                   getObjectState(objectToDelete), Undefined, Undefined))
    /\ lastOp' = Op("deleteSelected")
    /\ UNCHANGED <<roomVars, editorVars, created, obj, isRotating, interactionMode,
                   dragStartPosition, objectStartPosition, objectStartRotation, dragOffset,
                   startPointer, orbitEnabled>>

\* key Escape while an object is selected, and the UI's 'deselect'
deselectObject ==
    /\ selectedObject # Null
    /\ SetSel(deselect(Sel))
    /\ lastOp' = Op("deselect")
    /\ UNCHANGED <<roomVars, editorVars, created, scene, objects, obj, undoStack, redoStack,
                   pinnedObjects, isRotating, interactionMode, dragStartPosition, objectStartPosition,
                   objectStartRotation, dragOffset, startPointer, orbitEnabled>>

\* THREE.MathUtils.degToRad, in angle units
degToRad(angleDegrees) == angleDegrees \div DegreesPerUnit

\* rotateObject(currentSelected, angleDegrees), the UI's 'rotate-by'
rotateObject(angleDegrees) ==
    /\ smSelectedObject # Null
    /\ LET o  == smSelectedObject
           ob == [obj EXCEPT ![o].rotation.y = @ + degToRad(angleDegrees)]
       IN IF isPinned(o)
          THEN UNCHANGED <<obj, undoStack, redoStack>>
          ELSE /\ Len(undoStack) < MaxStack
               /\ YawOK(ob[o].rotation.y)
               /\ obj' = ob
               /\ onObjectChanged(ob, o)
    /\ lastOp' = Op("rotateObject")
    /\ UNCHANGED <<roomVars, editorVars, created, scene, objects, smSelectedObject, imVars>>


(***************************************************************************)
(* SceneManager.undo / redo.  Each case gives the handler's effect on      *)
(* everything but the stack it popped from.  A TypeError leaves the        *)
(* handler at the statement that raised it: what ran before stays done,    *)
(* the rest (the final push onto the other stack) never runs.              *)
(***************************************************************************)
undoAdd(action) ==
    /\ scene' = scene \ {action.object}
    /\ objects' = FilterOut(objects, action.object)
    /\ IF smSelectedObject = action.object THEN SetSel(deselect(Sel)) ELSE SetSel(Sel)
    /\ redoStack' = Append(redoStack, action)
    /\ lastOp' = UndoOp(FALSE)
    /\ UNCHANGED obj

\* an undo of a removal that lists the object without looking at the list
undoRemoveListedTwice(action) ==
    /\ scene' = scene \cup {action.object}
    /\ objects' = Append(Append(objects, action.object), action.object)
    /\ obj' = applyObjectState(obj, action.object, action.properties)
    /\ redoStack' = Append(redoStack, action)
    /\ lastOp' = UndoOp(FALSE)
    /\ SetSel(Sel)

undoRemove(action) ==
    /\ scene' = scene \cup {action.object}
    /\ objects' = Append(objects, action.object)
    /\ obj' = applyObjectState(obj, action.object, action.properties)
    /\ redoStack' = Append(redoStack, action)
    /\ lastOp' = UndoOp(FALSE)
    /\ SetSel(Sel)

\* applyObjectState(action.object, action.previousProperties) reads
\* state.position: a TypeError when previousProperties is undefined.  After
\* it, interactionManager.updateControlsForObject is called, which no
\* InteractionManager defines: a TypeError as well.
undoTransform(action) ==
    /\ IF action.previousProperties = Undefined
       THEN UNCHANGED obj
       ELSE obj' = applyObjectState(obj, action.object, action.previousProperties)
    /\ lastOp' = UndoOp(TRUE)
    /\ SetSel(Sel)
    /\ UNCHANGED <<scene, objects, redoStack>>

undoDefaultDrop(action) ==
    /\ lastOp' = UndoOp(FALSE)
    /\ SetSel(Sel)
    /\ UNCHANGED <<scene, objects, obj, redoStack>>

undoDefault(action) ==
    /\ redoStack' = Append(redoStack, action)
    /\ lastOp' = UndoOp(FALSE)
    /\ SetSel(Sel)
    /\ UNCHANGED <<scene, objects, obj>>

undo ==
    /\ IF undoStack = <<>>
       THEN /\ lastOp' = UndoOp(FALSE)
            /\ SetSel(Sel)
            /\ UNCHANGED <<scene, objects, obj, undoStack, redoStack>>
       ELSE LET action == Top(undoStack)
            IN /\ undoStack' = Pop(undoStack)
               /\ CASE action.type = "add"       -> undoAdd(action)
                    [] action.type = "remove"    -> undoRemove(action)
                    [] action.type = "transform" -> undoTransform(action)
                    [] OTHER                     -> undoDefault(action)
    /\ UNCHANGED <<roomVars, editorVars, created, pinnedObjects, isRotating, interactionMode,
                   dragStartPosition, objectStartPosition, objectStartRotation, dragOffset,
                   startPointer, orbitEnabled>>

redoAddNoState(action) ==
    /\ scene' = scene \cup {action.object}
    /\ objects' = Append(objects, action.object)
    /\ undoStack' = Append(undoStack, action)
    /\ lastOp' = RedoOp(FALSE)
    /\ SetSel(Sel)
    /\ UNCHANGED obj

redoAdd(action) ==
    /\ scene' = scene \cup {action.object}
    /\ objects' = Append(objects, action.object)
    /\ obj' = applyObjectState(obj, action.object, action.properties)
    /\ undoStack' = Append(undoStack, action)
    /\ lastOp' = RedoOp(FALSE)
    /\ SetSel(Sel)

redoRemove(action) ==
    /\ scene' = scene \ {action.object}
    /\ objects' = FilterOut(objects, action.object)
    /\ IF smSelectedObject = action.object THEN SetSel(deselect(Sel)) ELSE SetSel(Sel)
    /\ undoStack' = Append(undoStack, action)
    /\ lastOp' = RedoOp(FALSE)
    /\ UNCHANGED obj

\* as undoTransform, with newProperties
redoTransform(action) ==
    /\ IF action.newProperties = Undefined
       THEN UNCHANGED obj
       ELSE obj' = applyObjectState(obj, action.object, action.newProperties)
    /\ lastOp' = RedoOp(TRUE)
    /\ SetSel(Sel)
    /\ UNCHANGED <<scene, objects, undoStack>>

redoDefault(action) ==
    /\ undoStack' = Append(undoStack, action)
    /\ lastOp' = RedoOp(FALSE)
    /\ SetSel(Sel)
    /\ UNCHANGED <<scene, objects, obj>>

redo ==
    /\ IF redoStack = <<>>
       THEN /\ lastOp' = RedoOp(FALSE)
            /\ SetSel(Sel)
            /\ UNCHANGED <<scene, objects, obj, undoStack, redoStack>>
       ELSE LET action == Top(redoStack)
            IN /\ redoStack' = Pop(redoStack)
               /\ CASE action.type = "add"       -> redoAdd(action)
                    [] action.type = "remove"    -> redoRemove(action)
                    [] action.type = "transform" -> redoTransform(action)
                    [] OTHER                     -> redoDefault(action)
    /\ UNCHANGED <<roomVars, editorVars, created, pinnedObjects, isRotating, interactionMode,
                   dragStartPosition, objectStartPosition, objectStartRotation, dragOffset,
                   startPointer, orbitEnabled>>

\* a caller of the public addToUndoStack that records an action of a kind
\* other than add / remove / transform
HostActionTypes == {"other"}

hostAddToUndoStack ==
    /\ Len(undoStack) < MaxStack
    /\ \E type \in HostActionTypes, o \in created :
          addToUndoStack(Action(type, o, getObjectState(o), Undefined, Undefined))
    /\ lastOp' = Op("addToUndoStack")
    /\ UNCHANGED <<roomVars, editorVars, created, scene, objects, obj, smSelectedObject, imVars>>

(***************************************************************************)
(* FloorDimensionEditor and SceneManager.toggleFloorEditor                 *)
(***************************************************************************)
\* after `new FloorDimensionEditor(...)`; no InteractionManager sets `enabled`
EditorConstructed ==
    /\ editorPoints = <<>>
    /\ handles = <<>>
    /\ edgeLabels = <<>>
    /\ isActive = TRUE
    /\ onPointsUpdated = FALSE
    /\ dragged = 0
    /\ enabled = "undefined"

\* A translation is kept like groupPosition, as (numerator, n).  The rooms
\* the editor is opened on and the steps handles are dragged by keep every
\* centroid a whole number of mm, so that applying a translation is exact.
Whole(g) == g.x % g.n = 0 /\ g.z % g.n = 0

\* worldPoint.applyMatrix4(group.matrixWorld)
localToWorld(p, m) == [x |-> p.x + (m.x \div m.n), z |-> p.z + (m.z \div m.n)]

\* localP.applyMatrix4(inverseRoomGroupMatrix)
worldToLocal(p, m) == [x |-> p.x - (m.x \div m.n), z |-> p.z - (m.z \div m.n)]

\* points.map(p => ({...p}))
CopyPoints(ps) == [i \in 1..Len(ps) |-> [x |-> ps[i].x, z |-> ps[i].z]]

offsetFromEdge == 180   \* labelStyle.offsetFromEdge, 0.18 m, in mm

\* the label of the edge that starts at point i: twice the edge's midpoint
\* and the perpendicular (-dz, dx) along which the label is displaced from
\* it, by offsetFromEdge times the perpendicular's unit vector
EdgeLabel(points, i) ==
    LET p1 == points[i]
        p2 == points[NextIdx(i, Len(points))]
        dx == p2.x - p1.x
        dz == p2.z - p1.z
    IN [mid2 |-> [x |-> 2 * p1.x + dx, z |-> 2 * p1.z + dz],
        perp |-> [x |-> -dz, z |-> dx],
        offset |-> offsetFromEdge]

_createEdgeLabels(points) == [i \in 1..Len(points) |-> EdgeLabel(points, i)]

clearEditor ==
    /\ editorPoints' = <<>>
    /\ handles' = <<>>
    /\ edgeLabels' = <<>>
    /\ isActive' = FALSE
    /\ onPointsUpdated' = FALSE
    /\ dragged' = 0            \* dragControls.dispose()

initEditor(initialPoints) ==
    IF Len(initialPoints) < MinPoints
    THEN clearEditor
    ELSE /\ editorPoints' = CopyPoints(initialPoints)
         /\ onPointsUpdated' = TRUE
         /\ handles' = CopyPoints(initialPoints)      \* _createHandles
         /\ edgeLabels' = _createEdgeLabels(CopyPoints(initialPoints))
         /\ dragged' = 0                              \* _enableDragging
         /\ isActive' = TRUE

\* whether the editor shows its handles
EditorOpen == isActive /\ handles # <<>>

\* lastOp of an editor handler: the arguments the commit callback was called
\* with, one per call
EditorOp(name, committed) == [op |-> name, threw |-> FALSE, committed |-> committed]

\* the UI's 'toggle-floor-dimensions'
toggleFloorEditor ==
    /\ IF isActive
       THEN /\ clearEditor
            /\ enabled' = "true"
            /\ orbitEnabled' = TRUE
            /\ UNCHANGED <<matrixWorld, selectedObject, isDragging, smSelectedObject, events>>
       ELSE LET localRoomPoints == getCurrentPoints
            IN IF Len(localRoomPoints) >= MinPoints
               THEN /\ Whole(groupPosition)
                    \* group.getWorldPosition brings group.matrixWorld up to date
                    /\ matrixWorld' = groupPosition
                    /\ enabled' = "false"
                    /\ SetSel(deselect(Sel))
                    /\ initEditor([i \in 1..Len(localRoomPoints) |->
                                     localToWorld(localRoomPoints[i], groupPosition)])
                    /\ UNCHANGED orbitEnabled
               ELSE UNCHANGED <<matrixWorld, editorVars, orbitEnabled, selectedObject,
                                isDragging, smSelectedObject, events>>
    /\ lastOp' = Op("toggleFloorEditor")
    /\ UNCHANGED <<currentPoints, floor, wallSegments, groupPosition, roomCall, wallVisible,
                   children, watermark, watermarkTexture,
                   created, scene, objects, obj, undoStack, redoStack,
                   pinnedObjects, isRotating, interactionMode, dragStartPosition,
                   objectStartPosition, objectStartRotation, dragOffset, startPointer>>

\* DragControls' 'dragstart' on handle i
_onDragStart(i) ==
    /\ EditorOpen
    /\ dragged = 0
    /\ i \in 1..Len(handles)
    /\ dragged' = i
    /\ orbitEnabled' = FALSE
    /\ lastOp' = EditorOp("_onDragStart", <<>>)
    /\ UNCHANGED <<roomVars, editorPoints, handles, edgeLabels, isActive, onPointsUpdated, enabled,
                   sceneVars, selectedObject, pinnedObjects, isDragging, isRotating,
                   interactionMode, dragStartPosition, objectStartPosition,
                   objectStartRotation, dragOffset, startPointer, events>>

onCommitEmpty(updatedWorldPoints) ==
    /\ Whole(matrixWorld)
    /\ buildFromPolygon([i \in 1..Len(updatedWorldPoints) |->
                            worldToLocal(updatedWorldPoints[i], matrixWorld)], TRUE)

\* the callback toggleFloorEditor gives initEditor, called with the editor's
\* points in world space
onCommit(updatedWorldPoints) ==
    /\ Whole(matrixWorld)
    /\ buildFromPolygon([i \in 1..Len(updatedWorldPoints) |->
                            worldToLocal(updatedWorldPoints[i], matrixWorld)], FALSE)

_onDragCommitting(position) ==
    /\ dragged # 0
    /\ handles' = [handles EXCEPT ![dragged] = position]
    /\ editorPoints' = [editorPoints EXCEPT ![dragged] = position]
    /\ edgeLabels' = _createEdgeLabels(editorPoints')     \* _updateEdgeLabels
    /\ onCommit(CopyPoints(editorPoints'))
    /\ lastOp' = EditorOp("_onDrag", <<CopyPoints(editorPoints')>>)
    /\ UNCHANGED <<isActive, onPointsUpdated, dragged, enabled, sceneVars, imVars>>

\* DragControls' 'drag': it has moved the handle to position
_onDrag(position) ==
    /\ dragged # 0
    /\ handles' = [handles EXCEPT ![dragged] = position]
    /\ editorPoints' = [editorPoints EXCEPT ![dragged] = position]
    /\ edgeLabels' = _createEdgeLabels(editorPoints')     \* _updateEdgeLabels
    /\ lastOp' = EditorOp("_onDrag", <<>>)
    /\ UNCHANGED <<roomVars, isActive, onPointsUpdated, dragged, enabled, sceneVars, imVars>>

\* DragControls' 'dragend'
_onDragEnd ==
    /\ dragged # 0
    /\ dragged' = 0
    /\ orbitEnabled' = TRUE
    /\ IF onPointsUpdated
       THEN /\ onCommit(CopyPoints(editorPoints))
            /\ lastOp' = EditorOp("_onDragEnd", <<CopyPoints(editorPoints)>>)
       ELSE /\ UNCHANGED roomVars
            /\ lastOp' = EditorOp("_onDragEnd", <<>>)
    /\ UNCHANGED <<editorPoints, handles, edgeLabels, isActive, onPointsUpdated, enabled,
                   sceneVars, selectedObject, pinnedObjects, isDragging, isRotating,
                   interactionMode, dragStartPosition, objectStartPosition,
                   objectStartRotation, dragOffset, startPointer, events>>

\* one frame of SceneManager.animate: the walls are culled, then
\* renderer.render brings every matrixWorld of the scene up to date
animate(cameraWorldDirection) ==
    /\ wallVisible' = [k \in 1..Len(wallSegments) |->
                          DotBelowThreshold(wallSegments[k], cameraWorldDirection)]
    /\ updateWatermarkPosition(wallVisible')
    /\ matrixWorld' = groupPosition
    /\ lastOp' = Op("animate")
    /\ UNCHANGED <<currentPoints, floor, wallSegments, groupPosition, roomCall,
                   watermarkTexture, editorVars, sceneVars, imVars>>

\* a room of another shape, built by the page through window.roomInstance
\* (as its loadShapeFromTemplate does) before anything else happens: a
\* triangle, in mm
HostShapes == { << [x |-> 1200, z |-> 0], [x |-> 0, z |-> 600], [x |-> 0, z |-> 0] >> }

hostBuildFromPolygon ==
    /\ lastOp.op = "constructor"
    /\ \E shape \in HostShapes : buildFromPolygon(shape, FALSE)
    /\ lastOp' = [op |-> "buildFromPolygon", threw |-> FALSE]
    /\ UNCHANGED <<editorVars, sceneVars, imVars>>

\* the positions DragControls can move a handle to: steps of DragUnit along
\* x that stay within MaxDrag steps of a vertex of the first room.  DragUnit
\* (mm) is a multiple of 3 and of 4, the numbers of vertices of the rooms.
DragUnit == 1200

HandleCoords ==
    LET firstRooms == {defaultRoomPoints} \cup HostShapes
        world(ps)  == {localToWorld(ps[i], GroupPosition(ps)) : i \in 1..Len(ps)}
        base       == UNION {UNION {{q.x, q.z} : q \in world(ps)} : ps \in firstRooms}
    IN {c + DragUnit * k : c \in base, k \in (0 - MaxDrag)..MaxDrag}

DragPositions(h) ==
    {q \in {[x |-> h.x + DragUnit * dx, z |-> h.z] : dx \in {-1, 1}} :
        q.x \in HandleCoords}

\* the room's offset is within one step of the origin
Near(g) == /\ (0 - DragUnit) * g.n <= g.x /\ g.x <= DragUnit * g.n
           /\ (0 - DragUnit) * g.n <= g.z /\ g.z <= DragUnit * g.n

(***************************************************************************)
(* Specifications                                                          *)
(***************************************************************************)
\* after `new SceneManager(container)`
Init ==
    /\ initRoom
    /\ EditorConstructed
    /\ created = {}
    /\ scene = {}
    /\ objects = <<>>
    /\ obj = [o \in Objs |-> LoadedModel]
    /\ undoStack = <<>>
    /\ redoStack = <<>>
    /\ smSelectedObject = Null
    /\ selectedObject = Null
    /\ pinnedObjects = {}
    /\ isDragging = FALSE
    /\ isRotating = FALSE
    /\ interactionMode = "translate"
    /\ dragStartPosition = Vec3(0, 0, 0)
    /\ objectStartPosition = Vec3(0, 0, 0)
    /\ objectStartRotation = Vec3(0, 0, 0)
    /\ dragOffset = Vec3(0, 0, 0)
    /\ startPointer = 0
    /\ orbitEnabled = TRUE
    /\ events = <<>>
    /\ lastOp = Op("constructor")

Pointers == 0..MaxPointer
RotateByAngles == {-90, -45, 45, 90}

\* the point of o's surface at its origin
Origin(o) == Vec3(obj[o].position.x, obj[o].position.y, obj[o].position.z)

\* The undo/redo stack under the handlers that record actions or move the
\* selection.  Objects are grabbed right above their origin and are never
\* pinned.
Next ==
    \/ addModel(NullPoint)
    \/ duplicateObject
    \/ removeObject
    \/ \E px \in Pointers, target \in scene \cup {Null} :
          onPointerDown(px, target, IF target = Null THEN NullPoint ELSE Origin(target))
    \/ \E px \in Pointers, intersection \in PosXZ \cup {NullPoint} :
          onPointerMove(px, intersection)
    \/ onPointerUp
    \/ \E mode \in {"translate", "rotate"} : setInteractionMode(mode)
    \/ deleteSelected
    \/ deselectObject
    \/ \E angleDegrees \in RotateByAngles : rotateObject(angleDegrees)
    \/ undo
    \/ redo

Spec == Init /\ [][Next]_vars

\* The pointer handlers with pinning: objects are added, duplicated, selected,
\* dragged, rotated, pinned and unpinned (key P and the UI's pin / unpin).
NextPin ==
    \/ addModel(NullPoint)
    \/ duplicateObject
    \/ \E px \in Pointers, target \in scene \cup {Null} :
          onPointerDown(px, target, IF target = Null THEN NullPoint ELSE Origin(target))
    \/ \E px \in Pointers, intersection \in PosXZ \cup {NullPoint} :
          onPointerMove(px, intersection)
    \/ onPointerUp
    \/ \E mode \in {"translate", "rotate"} : setInteractionMode(mode)
    \/ deselectObject
    \/ \E angleDegrees \in RotateByAngles : rotateObject(angleDegrees)
    \/ togglePin
    \/ \E pin \in BOOLEAN : uiPin(pin)

SpecPin == Init /\ [][NextPin]_vars

(***************************************************************************)
(* Grabbing an object at any point of its surface.  The ray through the    *)
(* pointer meets the surface at the hit point, at some height above the    *)
(* floor, and goes on to the drag plane y = 0.  The camera's pose is the   *)
(* ray's slope: the horizontal distance it covers per unit of height, in   *)
(* the direction of the grid's diagonal (0: the camera looks straight      *)
(* down).                                                                  *)
(***************************************************************************)
ViewSlopes == {0, 1}

\* the heights (mm) at which a ray can meet an object: where it stands on
\* the floor, and on its top
SurfaceHeights == {0, DuplicateOffset}

\* the points of o's surface a pointer-down can hit: above its origin
SurfacePoints(o) ==
    {Vec3(obj[o].position.x, h, obj[o].position.z) : h \in SurfaceHeights}

\* ray.intersectPlane(dragPlane) for the ray of slope s through point
RayOnPlane(point, s) == [x |-> point.x + s * point.y, z |-> point.z + s * point.y]

\* a pointer-move whose ray is the one of the grab, for a camera of slope s
onPointerMoveAtGrab(px, s) ==
    /\ isDragging
    /\ px = startPointer
    /\ onPointerMove(px, RayOnPlane(dragStartPosition, s))

NextGrab ==
    \/ addModel(NullPoint)
    \/ \E px \in Pointers, target \in scene \cup {Null} :
          \E hitPoint \in IF target = Null THEN {NullPoint} ELSE SurfacePoints(target) :
             onPointerDown(px, target, hitPoint)
    \/ \E px \in Pointers, s \in ViewSlopes : onPointerMoveAtGrab(px, s)
    \/ \E px \in Pointers, intersection \in PosXZ \cup {NullPoint} :
          onPointerMove(px, intersection)
    \/ onPointerUp
    \/ \E type \in LostPointerEvents : pointerLost(type)
    \/ \E mode \in {"translate", "rotate"} : setInteractionMode(mode)

SpecGrab == Init /\ [][NextGrab]_vars

\* the camera does not move while the editor is used
EditorCamera == [x |-> 0, z |-> 2]

\* The floor editor on the room: opened and closed, handles dragged and
\* released, frames rendered in between; one model is added without a
\* position.
NextEditor ==
    \/ hostBuildFromPolygon
    \/ toggleFloorEditor
    \/ \E i \in 1..MaxHandle : _onDragStart(i)
    \/ \E position \in IF dragged = 0 THEN {} ELSE DragPositions(handles[dragged]) :
          _onDrag(position)
    \/ (Near(groupPosition) /\ Near(matrixWorld) /\ _onDragEnd)
    \/ animate(EditorCamera)
    \/ (created = {} /\ addModel(NullPoint))

SpecEditor == Init /\ [][NextEditor]_vars

\* The two edit modes: models are added, the editor is opened and closed,
\* a handle is grabbed and released, and the canvas and the window go on
\* delivering pointer and key events to the InteractionManager.
NextModes ==
    \/ addModel(NullPoint)
    \/ toggleFloorEditor
    \/ \E i \in 1..MaxHandle : _onDragStart(i)
    \/ _onDragEnd
    \/ \E px \in Pointers, target \in scene \cup {Null} :
          onPointerDown(px, target, IF target = Null THEN NullPoint ELSE Origin(target))
    \/ \E px \in Pointers, intersection \in PosXZ \cup {NullPoint} :
          onPointerMove(px, intersection)
    \/ onPointerUp
    \/ togglePin
    \/ deleteSelected

SpecModes == Init /\ [][NextModes]_vars

\* the same program with a host that also records actions of its own kinds
NextHost == Next \/ hostAddToUndoStack

SpecHost == Init /\ [][NextHost]_vars

\* the Room on its own, built from every polygon of the input set and rebuilt
InitRoom ==
    /\ RoomConstructed
    /\ EditorConstructed
    /\ created = {}
    /\ scene = {}
    /\ objects = <<>>
    /\ obj = [o \in Objs |-> LoadedModel]
    /\ undoStack = <<>>
    /\ redoStack = <<>>
    /\ smSelectedObject = Null
    /\ selectedObject = Null
    /\ pinnedObjects = {}
    /\ isDragging = FALSE
    /\ isRotating = FALSE
    /\ interactionMode = "translate"
    /\ dragStartPosition = Vec3(0, 0, 0)
    /\ objectStartPosition = Vec3(0, 0, 0)
    /\ objectStartRotation = Vec3(0, 0, 0)
    /\ dragOffset = Vec3(0, 0, 0)
    /\ startPointer = 0
    /\ orbitEnabled = TRUE
    /\ events = <<>>
    /\ lastOp = Op("constructor")

NextRoom == BuildRoom \/ RebuildRoom

\* the Room under calls that are rejected or fail: built from a small
\* polygon, then rebuilt, also without a polygon
NextReject == BuildSmallRoom \/ RebuildRoom \/ buildFromPolygonMissing

SpecReject == InitRoom /\ [][NextReject]_vars

\* the Room under the render loop: built once from a small polygon, then
\* culled for each camera direction
NextCull ==
    \/ BuildSmallRoom
    \/ \E cameraWorldDirection \in CameraDirections :
          updateWallVisibility(cameraWorldDirection)

SpecCull == InitRoom /\ [][NextCull]_vars

\* the watermark's TextureLoader reports an error: watermarkTexture = null
onWatermarkError ==
    /\ watermarkTexture
    /\ watermarkTexture' = FALSE
    /\ lastOp' = Op("onWatermarkError")
    /\ UNCHANGED <<currentPoints, floor, wallSegments, groupPosition, roomCall, wallVisible,
                   matrixWorld, children, watermark, editorVars, sceneVars, imVars>>

\* the cameras of the frames between two builds: one that hides a wall of an
\* axis-aligned room and one that hides none
RebuildCameras == { [x |-> 0, z |-> 2], [x |-> 0, z |-> 1] }

\* the Room built again and again, with frames rendered between the builds:
\* built from a small polygon, rebuilt from its own points, from the default
\* room or from no points, with or without walls
NextRebuild ==
    \/ BuildSmallRoom
    \/ RebuildRoom
    \/ \E cameraWorldDirection \in RebuildCameras :
          updateWallVisibility(cameraWorldDirection)
    \/ onWatermarkError

SpecRebuild == InitRoom /\ [][NextRebuild]_vars

SpecRoom == InitRoom /\ [][NextRoom]_vars


(***************************************************************************)
(* Undo / redo properties                                                  *)
(***************************************************************************)
InList(o, list) == \E i \in 1..Len(list) : list[i] = o

\* the position, rotation and scale of o equal those of a captured state
SameTransform(o, ob, state) ==
    /\ state # Undefined
    /\ ob[o].position = state.position
    /\ ob[o].rotation = state.rotation
    /\ ob[o].scale = state.scale

KnownTypes == {"add", "remove", "transform"}

\* C1: undo() on a non-empty undo stack removes exactly the top action,
\* applies its inverse (add: the object leaves the scene and the objects
\* list; remove: the object is back in the scene and the list with its
\* captured state; transform: the object has its before-state) and leaves
\* that action on top of the redo stack.
C1_UndoInvertsTop ==
    [][(undo /\ undoStack # <<>> /\ Top(undoStack).type \in KnownTypes) =>
         LET a == Top(undoStack)
         IN /\ undoStack' = Pop(undoStack)
            /\ redoStack' = Append(redoStack, a)
            /\ a.type = "add" =>
                  a.object \notin scene' /\ ~InList(a.object, objects')
            /\ a.type = "remove" =>
                  /\ a.object \in scene' /\ InList(a.object, objects')
                  /\ SameTransform(a.object, obj', a.properties)
            /\ a.type = "transform" =>
                  SameTransform(a.object, obj', a.previousProperties)]_vars

RecordedType(op) ==
    CASE op \in {"addModel", "duplicateObject"}    -> "add"
      [] op \in {"removeObject", "deleteSelected"} -> "remove"
      [] op \in {"onPointerMove", "rotateObject"}  -> "transform"
      [] OTHER                                     -> "none"

\* C3: whenever a handler records an action (model added, duplicated,
\* removed, deleted by key, moved by a drag or by rotateObject), the action
\* is the new top of the undo stack, on top of the old stack, and the redo
\* stack is empty afterwards whatever it held.
C3_PushClearsRedo ==
    [][(RecordedType(lastOp'.op) # "none" /\ undoStack' # undoStack) =>
         /\ Pop(undoStack') = undoStack
         /\ Top(undoStack').type = RecordedType(lastOp'.op)
         /\ redoStack' = <<>>]_vars

\* an object was taken out of the scene by undoing its add, and a model
\* added since then has emptied the redo stack that held that add
C3_Witness ==
    /\ lastOp.op = "addModel"
    /\ redoStack = <<>>
    /\ \E o \in created \ scene :
          \A i \in 1..Len(undoStack) : undoStack[i].object # o

\* C4: undo() followed immediately by redo() restores the state before the
\* undo: the same objects in the scene with the same position, rotation and
\* scale, and both stacks as they were.
C4_UndoRedoRestores ==
    [][(lastOp.op = "undo" /\ lastOp.before.undoStack # <<>> /\ redo) =>
         /\ scene' = lastOp.before.scene
         /\ \A o \in scene' : SameTransform(o, obj', lastOp.before.obj[o])
         /\ undoStack' = lastOp.before.undoStack
         /\ redoStack' = lastOp.before.redoStack]_vars

\* C5: with Add(A) and then Transform(A, pos0 -> pos1) recorded from an
\* empty scene, the first undo leaves A present at pos0, the second leaves
\* A absent, and the two redos leave A present at pos1.
C5_Recorded(stack, A) ==
    /\ Len(stack) = 2
    /\ stack[1].type = "add" /\ stack[1].object = A
    /\ stack[2].type = "transform" /\ stack[2].object = A

C5_AddTransformScenario ==
    [][\A A \in Objs :
         /\ (undo /\ created = {A} /\ redoStack = <<>> /\ C5_Recorded(undoStack, A)) =>
               /\ A \in scene'
               /\ obj'[A].position = undoStack[1].properties.position
         /\ (undo /\ created = {A} /\ Len(undoStack) = 1 /\ Len(redoStack) = 1
                  /\ C5_Recorded(undoStack \o redoStack, A)) =>
               A \notin scene'
         /\ (redo /\ created = {A} /\ Len(undoStack) = 1 /\ Len(redoStack) = 1
                  /\ C5_Recorded(undoStack \o redoStack, A)) =>
               /\ A \in scene'
               /\ obj'[A].position = redoStack[1].newProperties.position]_vars

\* C6: one drag gesture (pointer-down on the selected object, one or more
\* pointer-moves, pointer-up) appends exactly one transform action: none at
\* pointer-down, none at a pointer-move, and at pointer-up one whose
\* before-state is the object's state at drag start and whose after-state
\* is its state at the drop.
C6_OneActionPerDrag ==
    [][/\ (lastOp'.op = "onPointerDown") => undoStack' = undoStack
       /\ (lastOp'.op = "onPointerMove" /\ isDragging) => undoStack' = undoStack
       /\ (lastOp'.op = "onPointerUp" /\ isDragging /\ selectedObject # Null
             /\ lastOp.op = "onPointerMove") =>
            /\ Pop(undoStack') = undoStack
            /\ Top(undoStack').type = "transform"
            /\ Top(undoStack').object = selectedObject
            /\ Top(undoStack').previousProperties # Undefined
            /\ Top(undoStack').previousProperties.position = objectStartPosition
            /\ Top(undoStack').previousProperties.rotation = objectStartRotation
            /\ SameTransform(selectedObject, obj, Top(undoStack').newProperties)]_vars

\* C7: when undo() or redo() pops an action of a kind other than add,
\* remove and transform, no object and no scene membership changes and the
\* action is on top of one of the two stacks afterwards, so the number of
\* recorded actions is the same.
C7_UnknownKindKept ==
    [][/\ (undo /\ undoStack # <<>> /\ Top(undoStack).type \notin KnownTypes) =>
            /\ scene' = scene /\ objects' = objects /\ obj' = obj
            /\ Len(undoStack') + Len(redoStack') = Len(undoStack) + Len(redoStack)
            /\ \/ (undoStack' # <<>> /\ Top(undoStack') = Top(undoStack))
               \/ (redoStack' # <<>> /\ Top(redoStack') = Top(undoStack))
       /\ (redo /\ redoStack # <<>> /\ Top(redoStack).type \notin KnownTypes) =>
            /\ scene' = scene /\ objects' = objects /\ obj' = obj
            /\ Len(undoStack') + Len(redoStack') = Len(undoStack) + Len(redoStack)
            /\ \/ (undoStack' # <<>> /\ Top(undoStack') = Top(redoStack))
               \/ (redoStack' # <<>> /\ Top(redoStack') = Top(redoStack))]_vars

\* an undo has just moved an action of another kind to the redo stack
C7_Witness ==
    /\ lastOp.op = "undo"
    /\ lastOp.before.undoStack # <<>>
    /\ Top(lastOp.before.undoStack).type \notin KnownTypes
    /\ redoStack # <<>>
    /\ Top(redoStack) = Top(lastOp.before.undoStack)


(***************************************************************************)
(* Room properties                                                         *)
(***************************************************************************)
\* the number of edges of a polygon, the closing edge included, that are
\* shorter than the epsilon
RECURSIVE ShortEdges(_, _)
ShortEdges(points, i) ==
    IF i = 0 THEN 0
    ELSE LET a == points[i]
             b == points[(i % Len(points)) + 1]
             short == (b.x - a.x) * (b.x - a.x) + (b.z - a.z) * (b.z - a.z)
                        < Epsilon * Epsilon
         IN (IF short THEN 1 ELSE 0) + ShortEdges(points, i - 1)

\* (b - a) x (p - a): positive when p lies on the side of edge a->b that
\* (-dz, dx) points to
Cross(a, b, p) == (b.x - a.x) * (p.z - a.z) - (b.z - a.z) * (p.x - a.x)

\* a convex polygon of non-zero area, in either winding
IsConvex(points) ==
    LET n == Len(points)
        side(i, j) == Cross(points[i], points[(i % n) + 1], points[j])
    IN /\ ShoelaceSum(points) # 0
       /\ \/ \A i, j \in 1..n : side(i, j) >= 0
          \/ \A i, j \in 1..n : side(i, j) <= 0

\* 2n times the dot product of a wall's recorded normal with the vector
\* from the wall's midpoint (a + b) / 2 to the centroid (sum of points) / n
NormalDotToCentroid(w, points) ==
    LET n  == Len(points)
        sx == SumTo([i \in 1..n |-> points[i].x], n)
        sz == SumTo([i \in 1..n |-> points[i].z], n)
    IN w.inwardNormalLocalXZ.x * (2 * sx - n * (w.a.x + w.b.x))
     + w.inwardNormalLocalXZ.z * (2 * sz - n * (w.a.z + w.b.z))

\* C8: after every successful buildFromPolygon the stored polygon is in
\* counter-clockwise order (its shoelace sum is not positive) and is the
\* input sequence or its exact reverse.
C8_StoredCounterClockwise ==
    roomCall.op = "built" =>
       /\ ShoelaceSum(currentPoints) <= 0
       /\ \/ currentPoints = roomCall.points
          \/ currentPoints = Reverse(roomCall.points)

\* a room built from a clockwise polygon, stored reversed
C8_Witness ==
    /\ roomCall.op = "built"
    /\ ShoelaceSum(roomCall.points) > 0
    /\ currentPoints = Reverse(roomCall.points)
    /\ currentPoints # roomCall.points

\* C9: a polygon of n >= 3 points built with walls is built, not rejected,
\* with n wall segments minus one for each edge (closing edge included)
\* shorter than the epsilon, and all n points are stored.
C9_WallCount ==
    (roomCall.op # "constructor" /\ Len(roomCall.points) >= 3 /\ ~roomCall.isEmpty) =>
       /\ roomCall.op = "built"
       /\ Len(wallSegments) =
             Len(roomCall.points) - ShortEdges(roomCall.points, Len(roomCall.points))
       /\ Len(currentPoints) = Len(roomCall.points)

\* a room built with walls from a polygon whose closing edge is shorter
\* than the epsilon and whose other edges are not
C9_Witness ==
    /\ roomCall.op = "built" /\ ~roomCall.isEmpty
    /\ Len(roomCall.points) = 4
    /\ roomCall.points[4] = roomCall.points[1]
    /\ Len(wallSegments) = 3
    /\ Len(currentPoints) = 4

\* C10: every wall built from a convex polygon, given in either winding,
\* records a normal whose dot product with the vector from the wall's
\* midpoint to the polygon's centroid is positive.
C10_NormalPointsInward ==
    (roomCall.op = "built" /\ ~roomCall.isEmpty /\ IsConvex(roomCall.points)) =>
       \A k \in 1..Len(wallSegments) :
          NormalDotToCentroid(wallSegments[k], currentPoints) > 0

\* walls built from a convex quadrilateral given clockwise
C10_Witness ==
    /\ roomCall.op = "built" /\ ~roomCall.isEmpty
    /\ IsConvex(roomCall.points)
    /\ ShoelaceSum(roomCall.points) > 0
    /\ Len(wallSegments) = 4

\* C11: a buildFromPolygon call with a missing polygon (undefined or null)
\* or with fewer than 3 points raises no exception and leaves the room
\* empty: no floor, no wall segments, no stored points.
C11_RejectLeavesEmpty ==
    (lastOp.op = "buildFromPolygon"
       /\ ("arg" \in DOMAIN lastOp \/ Len(roomCall.points) < 3)) =>
       /\ ~lastOp.threw
       /\ currentPoints = <<>>
       /\ floor = "none"
       /\ wallSegments = <<>>

\* the floor, walls, stored points and origin offset of the room
RoomData == <<currentPoints, floor, wallSegments, groupPosition>>

\* C12: a buildFromPolygon call that fails (rejected, or ended by an
\* exception) on a room that was built either changes nothing of the room
\* (floor, walls, stored points, origin offset) or leaves all four as those
\* of the empty room; it never leaves some of them from the old room next to
\* others that were reset.
C12_FailedBuildAtomic ==
    [][(roomCall.op = "built" /\ lastOp'.op = "buildFromPolygon"
          /\ (lastOp'.threw \/ roomCall'.op = "rejected")) =>
         \/ RoomData' = RoomData
         \/ /\ currentPoints' = <<>>
            /\ floor' = "none"
            /\ wallSegments' = <<>>
            /\ groupPosition'.x = 0 /\ groupPosition'.z = 0]_vars

\* C13: after every successful build the group's offset is minus the mean
\* of the stored points (n times the offset plus the sum of the points is
\* zero on both axes); the default 10 m x 6 m rectangle built with walls has
\* exactly 4 walls of lengths 10, 6, 10, 6 and a zero offset.
C13_CentroidAtOrigin ==
    roomCall.op = "built" =>
       LET n  == Len(currentPoints)
           sx == SumTo([i \in 1..n |-> currentPoints[i].x], n)
           sz == SumTo([i \in 1..n |-> currentPoints[i].z], n)
       IN /\ groupPosition.n = n
          /\ groupPosition.x + sx = 0
          /\ groupPosition.z + sz = 0
          /\ (roomCall.points = defaultRoomPoints /\ ~roomCall.isEmpty) =>
                /\ Len(wallSegments) = 4
                /\ \A k \in 1..4 :
                      wallSegments[k].lengthSq =
                         IF k % 2 = 1 THEN 10000 * 10000 ELSE 6000 * 6000
                /\ groupPosition.x = 0 /\ groupPosition.z = 0

\* the default rectangle built with its four walls and a zero offset
C13_Witness ==
    /\ roomCall.op = "built" /\ ~roomCall.isEmpty
    /\ roomCall.points = defaultRoomPoints
    /\ Len(wallSegments) = 4
    /\ groupPosition = [x |-> 0, z |-> 0, n |-> 4]

C15_CullingPure ==
    [][\A c \in CameraDirections :
         (updateWallVisibility(c) /\ Len(wallSegments) > 0) =>
            /\ \A k \in 1..Len(wallSegments) :
                  wallVisible'[k] = DotBelowThreshold(wallSegments[k], c)
            /\ (lastOp.op = "updateWallVisibility" /\ lastOp.camera = c) =>
                  wallVisible' = wallVisible]_vars

\* a second frame with the same camera has run on a room with a hidden wall
C15_Witness ==
    /\ lastOp.op = "updateWallVisibility"
    /\ lastOp.repeated
    /\ \E k \in 1..Len(wallSegments) : ~wallVisible[k]

(***************************************************************************)
(* Interaction properties                                                  *)
(***************************************************************************)
\* C16: a pointer-down on a selectable object that is not the selected one
\* selects it and starts no drag; a drag starts only in a pointer-down that
\* hits the object already selected; a pointer-up during a drag ends the
\* drag and leaves the same object selected.
C16_SelectThenDrag ==
    [][/\ \A px \in Pointers, target \in scene :
            (onPointerDown(px, target, Origin(target)) /\ selectedObject # target) =>
               selectedObject' = target /\ ~isDragging'
       /\ (~isDragging /\ isDragging') =>
            /\ selectedObject # Null
            /\ selectedObject' = selectedObject
            /\ \E px \in Pointers :
                  onPointerDown(px, selectedObject, Origin(selectedObject))
       /\ (onPointerUp /\ isDragging) =>
            ~isDragging' /\ selectedObject' = selectedObject /\ selectedObject' # Null]_vars

\* a pointer-up has ended a drag that moved the object, which is still
\* selected
C16_Witness ==
    /\ lastOp.op = "onPointerUp"
    /\ ~isDragging
    /\ selectedObject # Null
    /\ orbitEnabled
    /\ obj[selectedObject].position # objectStartPosition

\* C17: the two managers hold the same single selection, and selection
\* notifications are well nested: a handler that sends any sends
\* object-deselected for the selected object first when there is one, then
\* at most one object-selected, for the object selected afterwards; a click
\* on another object sends deselected(old), selected(new), a click on empty
\* space sends deselected(old).
C17_SelectionNested ==
    [][/\ selectedObject' = smSelectedObject'
       /\ (events' # events) =>
            /\ Len(events') \in 1..2
            /\ (smSelectedObject # Null) =>
                  events'[1] = Notification("object-deselected", smSelectedObject)
            /\ (smSelectedObject = Null) =>
                  events' = <<Notification("object-selected", smSelectedObject')>>
            /\ (Len(events') = 2) =>
                  /\ smSelectedObject' # Null
                  /\ events'[2] = Notification("object-selected", smSelectedObject')
            /\ (smSelectedObject # Null /\ Len(events') = 1) => smSelectedObject' = Null
       /\ (events' = events) => smSelectedObject' = smSelectedObject
       /\ \A px \in Pointers, target \in scene \cup {Null} :
            (onPointerDown(px, target, IF target = Null THEN NullPoint ELSE Origin(target))
               /\ selectedObject # Null /\ target # selectedObject) =>
               events' = IF target = Null
                         THEN <<Notification("object-deselected", selectedObject)>>
                         ELSE <<Notification("object-deselected", selectedObject),
                                Notification("object-selected", target)>>]_vars

\* a click on another object has swapped the selection
C17_Witness ==
    /\ lastOp.op = "onPointerDown"
    /\ Len(events) = 2
    /\ events[1].type = "object-deselected"
    /\ events[2] = Notification("object-selected", selectedObject)
    /\ events[1].object # selectedObject

\* C18: the orbit control is enabled after every handler that ends with
\* nothing selected after something was, and is disabled after every
\* handler that ends with an object selected.
C18_OrbitFollowsSelection ==
    [][/\ (selectedObject # Null /\ selectedObject' = Null) => orbitEnabled'
       /\ (selectedObject' # Null) => ~orbitEnabled']_vars

\* C19: no pointer-down, pointer-move, pointer-up or rotateObject changes
\* the position or rotation of an object that is pinned when the handler
\* runs, also when it was pinned in the middle of a drag; a pointer-down on
\* a pinned object leaves it selected and starts no drag, and key P on a
\* pinned selected object unpins it.
C19_PinnedStaysPut ==
    [][/\ \A o \in created :
            (isPinned(o) /\ lastOp'.op \in {"onPointerDown", "onPointerMove",
                                            "onPointerUp", "rotateObject"}) =>
               /\ obj'[o].position = obj[o].position
               /\ obj'[o].rotation = obj[o].rotation
       /\ \A px \in Pointers, target \in scene :
            (onPointerDown(px, target, Origin(target)) /\ isPinned(target)) =>
               selectedObject' = target /\ (isDragging' => isDragging)
       /\ (togglePin /\ isPinned(selectedObject)) =>
            selectedObject \notin pinnedObjects']_vars

\* a pointer-move has run in a drag of an object that was pinned after the
\* drag had moved it
C19_Witness ==
    /\ lastOp.op = "onPointerMove"
    /\ isDragging
    /\ selectedObject # Null
    /\ selectedObject \in pinnedObjects
    /\ obj[selectedObject].position # objectStartPosition

\* C20: a pointer-move of a translate drag changes only the x and z of the
\* dragged object: its y is the y it had at drag start, and the move changes
\* neither its rotation nor its scale.
C20_TranslateKeepsHeight ==
    [][\A px \in Pointers, intersection \in PosXZ \cup {NullPoint} :
         (onPointerMove(px, intersection) /\ isDragging /\ ~isRotating
            /\ selectedObject # Null) =>
            /\ obj'[selectedObject].position.y = objectStartPosition.y
            /\ obj'[selectedObject].position.y = obj[selectedObject].position.y
            /\ obj'[selectedObject].rotation = obj[selectedObject].rotation
            /\ obj'[selectedObject].scale = obj[selectedObject].scale]_vars

\* a pointer-move of a translate drag has moved an object that stands above
\* the floor plane
C20_Witness ==
    /\ lastOp.op = "onPointerMove"
    /\ isDragging /\ ~isRotating
    /\ selectedObject # Null
    /\ obj[selectedObject].position.y > 0
    /\ obj[selectedObject].position.x # objectStartPosition.x


(***************************************************************************)
(* Dragging, cancellation and external removal                             *)
(***************************************************************************)
\* C21: in translate mode, a pointer-move whose ray is the ray of the grab
\* (the same screen position, the same camera) leaves the dragged object
\* where it was before the grab, wherever on its surface it was grabbed
C21_GrabReleaseNoDrift ==
    [][\A px \in Pointers, s \in ViewSlopes :
          (onPointerMoveAtGrab(px, s) /\ ~isRotating /\ ~isPinned(selectedObject))
          => obj'[selectedObject].position = objectStartPosition]_vars

\* C22: after the pointer is released or lost, no drag is in progress
C22_PointerEndEndsDrag ==
    [][lastOp'.op \in {"onPointerUp", "pointerLost"} => ~isDragging']_vars

\* C23: the selected object is always in the scene, for the manager and for
\* the SceneManager alike, and a drag is in progress only on a selected
\* object: whatever takes the selected object out of the scene (removeObject,
\* undo of its add, redo of its remove) leaves nothing selected and no drag
C23_SelectedInScene ==
    /\ selectedObject # Null => selectedObject \in scene
    /\ smSelectedObject = selectedObject
    /\ isDragging => selectedObject # Null

\* removeObject has taken the selected object out of the scene and the
\* manager has announced its deselection
C23_Witness ==
    /\ lastOp.op = "removeObject"
    /\ undoStack # <<>>
    /\ Top(undoStack).type = "remove"
    /\ Top(undoStack).object \notin scene
    /\ events = <<Notification("object-deselected", Top(undoStack).object)>>
    /\ selectedObject = Null
    /\ ~isDragging

(***************************************************************************)
(* Floor editor properties                                                 *)
(***************************************************************************)
\* the handlers of the InteractionManager's pointer and key listeners
ManagerHandlers == {"onPointerDown", "onPointerMove", "onPointerUp", "togglePin",
                    "deleteSelected"}

\* C24: while the floor editor is open the orbit control is disabled, and
\* the InteractionManager's pointer and key handlers select, move, pin and
\* delete nothing
C24_EditModesExclusive ==
    [][(EditorOpen /\ EditorOpen')
       => /\ ~orbitEnabled'
          /\ lastOp'.op \in ManagerHandlers
                => UNCHANGED <<selectedObject, isDragging, obj, pinnedObjects, scene>>]_vars

\* the room as it is rendered: its stored polygon, floor, walls and offset
RoomShape == <<currentPoints, floor, wallSegments, groupPosition>>

\* C25: the end of a handle drag calls the commit callback exactly once, with
\* a copy of all the editor's points, which stay as they were; the start of
\* a drag and its moves call nothing and leave the room's polygon, floor and
\* walls as they are
C25_CommitOncePerDragEnd ==
    [][/\ lastOp'.op = "_onDragEnd"
          => /\ Len(lastOp'.committed) = 1
             /\ lastOp'.committed[1] = editorPoints
             /\ Len(lastOp'.committed[1]) = Len(handles)
             /\ editorPoints' = editorPoints
       /\ lastOp'.op \in {"_onDragStart", "_onDrag"}
          => /\ lastOp'.committed = <<>>
             /\ RoomShape' = RoomShape]_vars

\* a drag has ended with a moved handle and the room was rebuilt from the
\* committed points
C25_Witness ==
    /\ lastOp.op = "_onDragEnd"
    /\ Len(lastOp.committed) = 1
    /\ lastOp.committed[1] = editorPoints
    /\ roomCall.op = "built"
    /\ roomCall.points # defaultRoomPoints
    /\ roomCall.points \notin HostShapes
    /\ Len(roomCall.points) = Len(editorPoints)

\* the world positions of the room's vertices, local point plus
\* group.position, and the handles' positions, both multiplied by the n of
\* groupPosition so that they are whole
WorldVertices ==
    {[x |-> groupPosition.n * currentPoints[i].x + groupPosition.x,
      z |-> groupPosition.n * currentPoints[i].z + groupPosition.z] :
        i \in 1..Len(currentPoints)}

HandlePositions ==
    {[x |-> groupPosition.n * handles[i].x, z |-> groupPosition.n * handles[i].z] :
        i \in 1..Len(handles)}

\* C26: after a drag end has committed and the room is rebuilt, the room's
\* vertices are, in world space, where the editor's handles are
C26_HandlesOnVertices ==
    [][(lastOp'.op = "_onDragEnd" /\ lastOp'.committed # <<>>)
       => WorldVertices' = HandlePositions']_vars

\* the squared length of the edge of ps that starts at index i
EdgeLengthSq(ps, i) ==
    LET a == ps[i]
        b == ps[NextIdx(i, Len(ps))]
    IN (b.x - a.x) * (b.x - a.x) + (b.z - a.z) * (b.z - a.z)

\* the walls of ws that join the points a and b
WallsOn(ws, a, b) == {k \in 1..Len(ws) : {ws[k].a, ws[k].b} = {a, b}}

\* the handles are on the room's vertices but for the dragged one, which
\* was moved: the first drag since the editor was opened
OneVertexDragged ==
    /\ dragged # 0
    /\ Len(handles) = Len(currentPoints)
    /\ \A i \in 1..Len(handles) :
          (handles[i] = localToWorld(currentPoints[i], groupPosition)) <=> (i # dragged)

\* C27: when one vertex was dragged and the drag ends, the room is rebuilt
\* from the editor's points, taken to local space, with one wall on each edge
\* that is not degenerate; each wall has the length of its edge, and on an
\* edge that does not touch the dragged vertex that is the length of the wall
\* that stood there before
C27_WallsAfterVertexDrag ==
    [][(OneVertexDragged /\ lastOp'.op = "_onDragEnd")
       => LET n      == Len(editorPoints)
              local  == [i \in 1..n |-> worldToLocal(editorPoints[i], matrixWorld)]
              edges  == {i \in 1..n : EdgeLengthSq(editorPoints, i) >= Epsilon * Epsilon}
          IN /\ roomCall'.points = local
             /\ Len(wallSegments') = Cardinality(edges)
             /\ \A i \in edges :
                   \E k \in WallsOn(wallSegments', local[i], local[NextIdx(i, n)]) :
                      /\ wallSegments'[k].lengthSq = EdgeLengthSq(editorPoints, i)
                      /\ (i # dragged /\ NextIdx(i, n) # dragged)
                         => \E j \in WallsOn(wallSegments, currentPoints[i],
                                             currentPoints[NextIdx(i, n)]) :
                               wallSegments[j].lengthSq = wallSegments'[k].lengthSq]_vars

\* the triangle with exactly one vertex away from where it was first built,
\* rebuilt from the editor's points with three walls
C27_Witness ==
    /\ lastOp.op = "_onDragEnd"
    /\ Len(editorPoints) = 3
    /\ \E shape \in HostShapes :
          Cardinality({i \in 1..3 : editorPoints[i]
                                     # localToWorld(shape[i], GroupPosition(shape))}) = 1
    /\ roomCall.points = [i \in 1..3 |-> worldToLocal(editorPoints[i], matrixWorld)]
    /\ Len(wallSegments) = 3

(***************************************************************************)
(* Winding and placement                                                   *)
(***************************************************************************)
\* C28: a build from the room's own stored points leaves the stored points
\* as they are; a build from a clockwise polygon (a positive shoelace sum)
\* stores its reverse, and a build from any other polygon stores it as it is
C28_WindingIdempotent ==
    [][roomCall'.op = "built"
       => /\ roomCall'.points = getCurrentPoints => currentPoints' = currentPoints
          /\ currentPoints' = IF ShoelaceSum(roomCall'.points) > 0
                              THEN Reverse(roomCall'.points) ELSE roomCall'.points]_vars

\* a room built from a clockwise polygon, stored reversed
C28_Witness ==
    /\ roomCall.op = "built"
    /\ ShoelaceSum(roomCall.points) > 0
    /\ currentPoints = Reverse(roomCall.points)
    /\ currentPoints # roomCall.points

\* the centroid of the room's polygon in world space, multiplied by the
\* number of points: the sum of the local points plus n times group.position
WorldCentroidTimesN ==
    LET n  == Len(currentPoints)
        xs == [i \in 1..n |-> currentPoints[i].x]
        zs == [i \in 1..n |-> currentPoints[i].z]
    IN [x |-> SumTo(xs, n) + groupPosition.x, z |-> SumTo(zs, n) + groupPosition.z]

\* C29: a model added without a position stands at the centroid of the room's
\* polygon in world space
C29_AddedAtRoomCentre ==
    [][lastOp'.op = "addModel"
       => \A o \in created' \ created :
             /\ Len(currentPoints) * obj'[o].position.x = WorldCentroidTimesN.x
             /\ Len(currentPoints) * obj'[o].position.z = WorldCentroidTimesN.z]_vars

\* C30: while a drag is in progress, undo() and redo() change no object's
\* transform and no object's scene membership
C30_NoUndoDuringDrag ==
    [][(isDragging /\ lastOp'.op \in {"undo", "redo"})
       => /\ scene' = scene
          /\ \A o \in scene : /\ obj'[o].position = obj[o].position
                              /\ obj'[o].rotation = obj[o].rotation]_vars

(***************************************************************************)
(* Rotation, rebuilds, fading, labels, toggling, bookkeeping               *)
(***************************************************************************)
\* C31: a pointer-down that starts a rotate drag records the object's
\* rotation and the pointer's x; every pointer-move of the drag sets the
\* object's yaw to the recorded yaw plus 5 times the pointer's displacement
\* from the recorded x and changes neither its position, its scale nor its
\* rotation about the other axes; a move at the recorded x gives the recorded
\* yaw; between the moves of one drag the record does not change
C31_RotateDragYawOnly ==
    [][/\ \A px \in Pointers, target \in scene :
             (onPointerDown(px, target, Origin(target)) /\ isDragging' /\ isRotating'
                /\ selectedObject = target)
             => /\ objectStartRotation' = obj[target].rotation
                /\ startPointer' = px
       /\ \A px \in Pointers, intersection \in PosXZ \cup {NullPoint} :
             (onPointerMove(px, intersection) /\ isDragging /\ isRotating
                /\ selectedObject # Null)
             => /\ obj'[selectedObject].rotation.y
                      = objectStartRotation.y + 5 * (px - startPointer)
                /\ px = startPointer
                      => obj'[selectedObject].rotation.y = objectStartRotation.y
                /\ obj'[selectedObject].rotation.x = obj[selectedObject].rotation.x
                /\ obj'[selectedObject].rotation.z = obj[selectedObject].rotation.z
                /\ obj'[selectedObject].position = obj[selectedObject].position
                /\ obj'[selectedObject].scale = obj[selectedObject].scale
       /\ (isDragging /\ isDragging' /\ lastOp'.op # "onPointerDown")
             => UNCHANGED <<objectStartRotation, startPointer, selectedObject>>]_vars

\* a pointer-move of a rotate drag has turned the dragged object
C31_Witness ==
    /\ lastOp.op = "onPointerMove"
    /\ isDragging /\ isRotating
    /\ selectedObject # Null
    /\ obj[selectedObject].rotation.y = objectStartRotation.y + 5
    /\ obj[selectedObject].position = objectStartPosition

\* C32: after every call of buildFromPolygon the group's children are the
\* floor of the call's polygon followed by the walls of that polygon (no wall
\* for an empty room, nothing at all after a rejected call), and at every
\* moment the walls among the group's children are the meshes of wallSegments
C32_FullRebuild ==
    [][/\ SelectSeq(children', IsWallMesh) = WallMeshes(wallSegments')
       /\ lastOp'.op = "buildFromPolygon"
            => children' = IF roomCall'.op = "built"
                           THEN <<FloorMesh(currentPoints')>>
                                \o (IF roomCall'.isEmpty THEN <<>>
                                    ELSE WallMeshes(createWalls(currentPoints')))
                           ELSE <<>>]_vars

\* the default room built over an earlier room of another shape
C32_Witness ==
    /\ lastOp.op = "buildFromPolygon"
    /\ roomCall.op = "built" /\ ~roomCall.isEmpty
    /\ currentPoints = defaultRoomPoints
    /\ Len(children) = 5
    /\ Len(wallSegments) = 4

\* two view directions one step (a fifth) apart in one coordinate
Adjacent(c, d) ==
    \/ c.x = d.x /\ (c.z - d.z = 1 \/ d.z - c.z = 1)
    \/ c.z = d.z /\ (c.x - d.x = 1 \/ d.x - c.x = 1)

\* C33: between two consecutive frames whose view directions are one step
\* apart, a wall that is shown in one and hidden in the other is partly
\* transparent in the frame that shows it: no wall goes from fully opaque to
\* hidden, or back, in one step
C33_NoPopping ==
    [][(lastOp.op = "updateWallVisibility" /\ lastOp'.op = "updateWallVisibility"
          /\ Adjacent(lastOp.camera, lastOp'.camera))
       => \A k \in 1..Len(wallSegments) :
             /\ (wallVisible[k] /\ ~wallVisible'[k]) => wallSegments[k].opacity < 1
             /\ (~wallVisible[k] /\ wallVisible'[k]) => wallSegments'[k].opacity < 1]_vars

Sign(v) == IF v > 0 THEN 1 ELSE IF v < 0 THEN -1 ELSE 0

\* the dot product of a label's displacement from its edge's midpoint with
\* the vector from that midpoint to the centroid of the n points, up to a
\* positive factor: 2n |offset| / |perp|
LabelDotToCentroid(label, points) ==
    LET n  == Len(points)
        sx == SumTo([i \in 1..n |-> points[i].x], n)
        sz == SumTo([i \in 1..n |-> points[i].z], n)
    IN Sign(label.offset) * (label.perp.x * (2 * sx - n * label.mid2.x)
                           + label.perp.z * (2 * sz - n * label.mid2.z))

\* C34: when the editor is opened on the room's polygon, a convex one, every
\* edge label is displaced from its edge's midpoint away from the polygon's
\* interior: the displacement's dot product with the vector from the midpoint
\* to the centroid is negative
C34_LabelsOutward ==
    [][(lastOp'.op = "toggleFloorEditor" /\ isActive' /\ edgeLabels' # <<>>
          /\ IsConvex(editorPoints'))
       => \A k \in 1..Len(edgeLabels') :
             LabelDotToCentroid(edgeLabels'[k], editorPoints') < 0]_vars

\* C35: with a room of at least 3 points, every toggleFloorEditor call flips
\* the editor between closed and open (handles shown): a call on a closed
\* editor opens it, the first call after construction included, and a call
\* on an open editor closes it
C35_ToggleFlips ==
    [][(lastOp'.op = "toggleFloorEditor" /\ Len(currentPoints) >= 3)
       => (EditorOpen' <=> ~EditorOpen)]_vars

\* C36: after every operation SceneManager.selectedObject is
\* InteractionManager.selectedObject
C36_SelectionsEqual == smSelectedObject = selectedObject

\* a model has been added while another was selected: the old selection was
\* dropped and the new model selected, in both managers
C36_Witness ==
    /\ lastOp.op = "addModel"
    /\ Len(events) = 2
    /\ events[1].type = "object-deselected"
    /\ events[2] = Notification("object-selected", selectedObject)
    /\ smSelectedObject = selectedObject
    /\ selectedObject # Null

\* object.userData.isPinned, the flag the UI reads (absent: not pinned)
PinFlag(o) ==
    IF "isPinned" \in DOMAIN obj[o].userData THEN obj[o].userData.isPinned ELSE FALSE

\* C37: for every object of the scene, its uuid is in pinnedObjects exactly
\* when its userData.isPinned flag is true
C37_PinStateConsistent ==
    \A o \in scene : (o \in pinnedObjects) <=> PinFlag(o)

\* C38: SceneManager.objects lists no object twice and lists exactly the
\* placed objects that are in the scene
C38_ObjectsAreScene ==
    /\ \A i, j \in 1..Len(objects) : i # j => objects[i] # objects[j]
    /\ {objects[i] : i \in 1..Len(objects)} = scene

\* an undo has brought a removed object back: it is in the scene and listed
C38_Witness ==
    /\ lastOp.op = "undo"
    /\ redoStack # <<>>
    /\ Top(redoStack).type = "remove"
    /\ Top(redoStack).object \in scene
    /\ objects # <<>>
    /\ objects[Len(objects)] = Top(redoStack).object

\* C39: a drag that starts is a rotation exactly when the mode is 'rotate'
\* at the pointer-down; while it lasts, no step other than a pointer-down
\* changes its kind, a change of the interaction mode included; and its
\* pointer-moves act by its kind, whatever the mode has become: a move of a
\* rotation leaves the position, a move of a translation leaves the rotation
C39_DragKindFixed ==
    [][/\ \A px \in Pointers, target \in scene :
             (onPointerDown(px, target, Origin(target)) /\ selectedObject = target
                /\ isDragging')
             => isRotating' = (interactionMode = "rotate")
       /\ (isDragging /\ isDragging' /\ lastOp'.op # "onPointerDown")
             => isRotating' = isRotating
       /\ (isDragging /\ lastOp'.op = "setInteractionMode")
             => isDragging' /\ obj' = obj
       /\ \A px \in Pointers, intersection \in PosXZ \cup {NullPoint} :
             (onPointerMove(px, intersection) /\ isDragging /\ selectedObject # Null)
             => IF isRotating
                THEN obj'[selectedObject].position = obj[selectedObject].position
                ELSE obj'[selectedObject].rotation = obj[selectedObject].rotation]_vars

\* a rotation goes on after the mode was changed to 'translate' during it
C39_Witness ==
    /\ lastOp.op = "onPointerMove"
    /\ isDragging /\ isRotating
    /\ interactionMode = "translate"
    /\ selectedObject # Null
    /\ obj[selectedObject].rotation.y # objectStartRotation.y

\* C40: an active editor holds at least 3 points, one handle and one edge
\* label per point, and handle k stands at point k; an inactive editor holds
\* no points, no handles, no labels and no commit callback
C40_EditorConsistent ==
    /\ isActive =>
          /\ Len(editorPoints) >= 3
          /\ Len(handles) = Len(editorPoints)
          /\ Len(edgeLabels) = Len(editorPoints)
          /\ \A k \in 1..Len(editorPoints) :
                /\ handles[k] = editorPoints[k]
                /\ edgeLabels[k] = EdgeLabel(editorPoints, k)
    /\ ~isActive =>
          /\ editorPoints = <<>>
          /\ handles = <<>>
          /\ edgeLabels = <<>>
          /\ ~onPointsUpdated

====
